---- MODULE Spec2Model ----
(***************************************************************************)
(* One button invocation of the Chainsaw dashboard: the click handler, the *)
(* input modal, network coordination (switchNetworkIfNeeded), embedded     *)
(* reads and the final read or submission.  Two implementations of the     *)
(* pipeline live in the repository and both are modelled:                  *)
(*   impl = "hook": MainView.tsx:447-619 + hooks/useChainsawActions.ts:1-221*)
(*   impl = "view": MainView.tsx:1-444 (its own coordinator and dispatcher)*)
(*   impl = "hook0": MainView.tsx:447-619 + useChainsawActions.ts:222-400    *)
(*   impl = "legacy": part_002 + InputModal.tsx:344-522                      *)
(* Both use the input modal of InputModal.tsx:1-343.                       *)
(* The wallet, the chain client and the ABI encoder are external: every    *)
(* request to them is a step whose outcome is chosen nondeterministically. *)
(***************************************************************************)
EXTENDS Integers, Sequences, FiniteSets, TLC

\* ---------------------------------------------------------------- bounds
MaxChainId == 2
MaxStrLen == 1
\* notifications after which the modal's repeatable steps (a failing Send, a
\* Save) are no longer taken
MaxNotes == 1
\* longest string handed to the integer coercion
CoerceMaxLen == 3
ArrayMaxLen == 5
MaxKeys == 2
MaxProfiles == 2
MaxShown == 3
MaxTime == 4
MaxDuration == 2

\* ------------------------------------------------------- program constants
\* EIP-1193 "unrecognized chain" error code tested by both coordinators
UnrecognizedChainCode == 4902
\* the wallet's answers to a request: resolved, or rejected with an error code
Resolved == 0
OtherErrorCode == UnrecognizedChainCode - 1

\* --------------------------------------------------------------- values
\* A JavaScript string is a sequence of one-character strings; null and an
\* embedded read directive ({"$read": ...}) are the two non-string values.
Alphabet == {" ", "1", "x"}
Digits == {"0", "1", "2", "3", "4", "5", "6", "7", "8", "9"}
Null == <<"null">>
ReadDir == <<"$read">>
\* a directive whose function declares two outputs (ReadDir's declares one)
ReadDir2 == <<"$read2">>
ReadDirectives == {ReadDir, ReadDir2}
\* 'arg && typeof arg === 'object' && '$read' in arg'
IsReadDirective(v) == v \in ReadDirectives
\* readCall.functionName
ReadFunctionName(directive) == directive[1]
\* readCall.abi: the number of outputs the function declares
ReadOutputs(directive) == IF directive = ReadDir2 THEN 2 ELSE 1

RECURSIVE StringsOfLen(_)
StringsOfLen(n) ==
    IF n = 0 THEN {<<>>}
    ELSE {<<c>> \o s : c \in Alphabet, s \in StringsOfLen(n - 1)}

Strings == UNION {StringsOfLen(n) : n \in 0..MaxStrLen}

\* The string the spec reserves for "use the connected address".  The code
\* knows no such token: it is a string like any other.
Placeholder == << "$connected" >>

\* Every value is a sequence whose first element is a character (a string) or
\* a tag: "null", "$read", "tuple" (an object holding the components of a tuple,
\* in the order the ABI declares them; a component the object lacks is Null).
\* the characters of a JSON array literal besides digits and blanks
JsonChars == {"[", "]", ",", "\""}
IsString(v) ==
    v = << >> \/ v[1] \in Alphabet \cup Digits \cup {"-"} \cup JsonChars \/ v = Placeholder
IsTupleValue(v) == v # << >> /\ v[1] = "tuple"
TupleVal(a, n) == << "tuple", a, n >>

\* values[index]; reading past the end gives undefined, which every emptiness
\* test treats as null
ValueAt(values, index) == IF index > Len(values) THEN Null ELSE values[index]

\* value[component.name] for the k-th component; indexing a string or a
\* directive by a component name gives undefined
ComponentOf(value, k) == IF IsTupleValue(value) THEN value[k + 1] ELSE Null

\* String.prototype.trim
RECURSIVE TrimLeft(_)
TrimLeft(s) == IF s # <<>> /\ Head(s) = " " THEN TrimLeft(Tail(s)) ELSE s

RECURSIVE TrimRight(_)
TrimRight(s) ==
    IF s # <<>> /\ s[Len(s)] = " " THEN TrimRight(SubSeq(s, 1, Len(s) - 1)) ELSE s

Trim(s) == TrimRight(TrimLeft(s))

\* ------------------------------------------------------------------ ABIs
\* The ABIs a button config can carry, by name.  "none" is an absent abi.
\* An AbiParameter: components is empty unless the type is tuple.
Param(name, type) == [name |-> name, type |-> type, components |-> << >>]
TupleParam(name, components) == [name |-> name, type |-> "tuple", components |-> components]

AbiTable ==
    [ erc20 |-> << [type |-> "function", name |-> "transfer",
                    inputs |-> << Param("to", "address"), Param("amount", "uint256") >>] >>,
      two   |-> << [type |-> "function", name |-> "transfer",
                    inputs |-> << Param("to", "address"), Param("amount", "uint256") >>],
                   [type |-> "function", name |-> "ping", inputs |-> << >>] >>,
      ctor  |-> << [type |-> "constructor", name |-> "",
                    inputs |-> << Param("owner", "address") >>],
                   [type |-> "function", name |-> "ping", inputs |-> << >>] >>,
      ping  |-> << [type |-> "function", name |-> "ping", inputs |-> << >>] >>,
      pack  |-> << [type |-> "function", name |-> "pack",
                    inputs |-> << TupleParam("t", << Param("a", "address"),
                                                     Param("n", "uint256") >>) >>] >> ]

AbiNames == DOMAIN AbiTable
NoAbi == "none"
NoName == ""
FunctionNames == {"transfer", "ping"}
TupleFunctionName == "pack"
NoItem == [type |-> "none", name |-> "", inputs |-> << >>]

AbiItems(abi) == IF abi = NoAbi THEN << >> ELSE AbiTable[abi]

\* abi.filter(item => item.type === 'function')
FunctionsInAbi(abi) == SelectSeq(AbiItems(abi), LAMBDA item : item.type = "function")

\* Array.prototype.find with the test item.type === type: the first such
\* entry, or NoItem
RECURSIVE FindByType(_, _)
FindByType(items, type) ==
    IF items = << >> THEN NoItem
    ELSE IF Head(items).type = type THEN Head(items)
    ELSE FindByType(Tail(items), type)

\* Array.prototype.find with the test item.type === 'function' &&
\* item.name === name: the first such entry, or NoItem
RECURSIVE FindFunction(_, _)
FindFunction(items, name) ==
    IF items = << >> THEN NoItem
    ELSE IF Head(items).type = "function" /\ Head(items).name = name THEN Head(items)
    ELSE FindFunction(Tail(items), name)

\* ------------------------------------------------------------- addresses
AddrEmpty == "empty"
AddrValid == "valid"
AddrInvalid == "invalid"
Addresses == {AddrEmpty, AddrValid, AddrInvalid}
\* viem isAddress
isAddress(a) == a = AddrValid

\* ----------------------------------------------------------------- chains
ChainIds == 1..MaxChainId
\* config.id that Number() turns into NaN
NaNId == -1
\* the chain registry built from the bundled network list
chainsById == {1}


\* --------------------------------------------------------- button configs
\* src/types.ts ButtonConfig, the fields the engine reads.  chainName and
\* nativeCurrency record whether the field is present; rpcUrlsLen is the
\* length of rpcUrls, -1 when the field is absent; data records whether raw
\* data / bytecode is present; args absent behaves as [] at every use.
Str1 == <<"1">>
ArgValues == Strings \cup {Null}
ArgLists ==
    {<< >>, <<Str1>>, <<ReadDir, Str1>>, <<Str1, ReadDir>>}
        \cup {<<Str1, v>> : v \in ArgValues}

\* configs that vary what network coordination reads
NetConfigs ==
    [ id : ChainIds \cup {NaNId}, chainName : BOOLEAN, rpcUrlsLen : {-1, 0, 1},
      nativeCurrency : BOOLEAN, address : {AddrValid}, abi : {"ping"},
      functionName : {"ping"}, args : {<< >>, <<ReadDir>>}, data : {FALSE},
      readOnly : BOOLEAN, chained : BOOLEAN ]

\* configs that vary what the click handler, the modal and the dispatcher read
DispatchConfigs ==
    [ id : {1}, chainName : {TRUE}, rpcUrlsLen : {1},
      nativeCurrency : {TRUE}, address : Addresses,
      abi : (AbiNames \ {"pack"}) \cup {NoAbi},
      functionName : FunctionNames \cup {NoName}, args : ArgLists, data : BOOLEAN,
      readOnly : BOOLEAN, chained : {FALSE} ]

\* configs whose function takes a tuple: the saved argument is absent, a
\* string, or an object with each component absent, empty, blank, a number or
\* not a number
CompValues == {Null, << >>, << " " >>, Str1, << "x" >>}
TupleArgLists ==
    {<< >>, << Str1 >>} \cup {<< TupleVal(a, n) >> : a \in CompValues, n \in CompValues}
TupleConfigs ==
    [ id : {1}, chainName : {TRUE}, rpcUrlsLen : {1},
      nativeCurrency : {TRUE}, address : {AddrValid}, abi : {"pack"},
      functionName : {TupleFunctionName}, args : TupleArgLists, data : {FALSE},
      readOnly : {FALSE}, chained : {FALSE} ]

\* configs whose args carry embedded read directives or the placeholder
ReadArgLists ==
    {<< ReadDir, ReadDir2 >>, << ReadDir2, ReadDir >>, << ReadDir2, Str1 >>,
     << Placeholder, Str1 >>}
ReadConfigs ==
    [ id : {1}, chainName : {TRUE}, rpcUrlsLen : {1},
      nativeCurrency : {TRUE}, address : {AddrValid}, abi : {"erc20"},
      functionName : {"transfer"}, args : ReadArgLists, data : {FALSE},
      readOnly : BOOLEAN, chained : {FALSE} ]

Configs == NetConfigs \cup DispatchConfigs \cup TupleConfigs \cup ReadConfigs

\* configs of the first MainView (part_002): write buttons only, with a
\* contract address
LegacyConfigs ==
    {c \in DispatchConfigs \cup TupleConfigs :
        ~c.readOnly /\ c.address = AddrValid /\ c.abi # "ctor"}

\* ------------------------------------------------- function resolution
\* InputModal.tsx:40-56 selectedFunction, MainView.tsx:161-170 / 206-215 /
\* 263-269: the name given, or the single function's name when none is given
\* and the abi has exactly one function; NoName when it cannot be inferred.
InferFunctionName(c) ==
    IF c.functionName # NoName THEN c.functionName
    ELSE IF Len(FunctionsInAbi(c.abi)) = 1 THEN FunctionsInAbi(c.abi)[1].name
    ELSE NoName

\* InputModal.tsx:40-56: the function entry the modal works on, or NoItem (null)
selectedFunction(c) ==
    IF c.abi = NoAbi THEN NoItem
    ELSE FindFunction(FunctionsInAbi(c.abi), InferFunctionName(c))

\* ------------------------------------------------------ the click pre-check
\* MainView.tsx:533: arg === undefined || arg === null || arg === ''
IsBlankArg(args, index) ==
    \/ index > Len(args)
    \/ args[index] = Null
    \/ args[index] = << >>

\* MainView.tsx:520-522: the ABI entry the pre-check inspects
ClickAbiItem(c) ==
    IF c.address = AddrEmpty
    THEN FindByType(AbiItems(c.abi), "constructor")
    ELSE FindFunction(AbiItems(c.abi), c.functionName)

\* MainView.tsx:515-536 hasEmptyArgs
hasEmptyArgs(c) ==
    /\ c.abi # NoAbi
    /\ ClickAbiItem(c) # NoItem
    /\ Len(ClickAbiItem(c).inputs) > 0
    /\ \E index \in 1..Len(ClickAbiItem(c).inputs) :
          \/ ClickAbiItem(c).inputs[index].type = "tuple"
          \/ IsBlankArg(c.args, index)

\* MainView.tsx:270-274 (view): the clicked function declares inputs
ViewNeedsInput(c) ==
    /\ c.abi # NoAbi
    /\ LET functionAbi == FindFunction(AbiItems(c.abi), InferFunctionName(c))
       IN functionAbi # NoItem /\ Len(functionAbi.inputs) > 0

\* ------------------------------------------------------- BigInt(s).toString()
DigitChars == << "0", "1", "2", "3", "4", "5", "6", "7", "8", "9" >>
DigitValue(ch) == CHOOSE d \in 0..9 : DigitChars[d + 1] = ch

RECURSIVE ParseDigits(_, _, _)
ParseDigits(s, base, acc) ==
    IF s = << >> THEN acc
    ELSE ParseDigits(Tail(s), base, acc * base + DigitValue(Head(s)))

AllDigits(s) == \A i \in 1..Len(s) : s[i] \in Digits

\* BigInt(value), StringToBigInt for the trimmed text of a string: ok is FALSE for the SyntaxError thrown on
\* an unparsable string.  Surrounding white space is ignored, the empty string
\* is 0, a decimal literal may carry a sign, a 0x prefix announces hexadecimal
\* digits and takes no sign.  A value that is not a string is converted to
\* one first ("[object Object]", "null"), which never parses.
StringToBigInt(t) ==
    IF AllDigits(t) THEN [ok |-> TRUE, n |-> ParseDigits(t, 10, 0)]
    ELSE IF Len(t) > 1 /\ t[1] \in {"-", "+"} /\ AllDigits(Tail(t))
    THEN [ok |-> TRUE,
          n |-> IF t[1] = "-" THEN 0 - ParseDigits(Tail(t), 10, 0)
                ELSE ParseDigits(Tail(t), 10, 0)]
    ELSE IF Len(t) > 2 /\ t[1] = "0" /\ t[2] = "x" /\ AllDigits(SubSeq(t, 3, Len(t)))
    THEN [ok |-> TRUE, n |-> ParseDigits(SubSeq(t, 3, Len(t)), 16, 0)]
    ELSE [ok |-> FALSE, n |-> 0]

ParseBigInt(v) ==
    IF ~IsString(v) THEN [ok |-> FALSE, n |-> 0] ELSE StringToBigInt(Trim(v))

\* BigInt.prototype.toString(): canonical decimal digits, "-" before a
\* negative value
RECURSIVE ToDecimalString(_)
ToDecimalString(n) ==
    IF n < 0 THEN << "-" >> \o ToDecimalString(0 - n)
    ELSE IF n < 10 THEN << DigitChars[n + 1] >>
    ELSE ToDecimalString(n \div 10) \o << DigitChars[(n % 10) + 1] >>

\* ------------------------------------------------------ argument resolution
\* InputModal.tsx:65: typeof value === 'string' ? value.trim() : value
TrimmedValue(v) == IF IsString(v) THEN Trim(v) ELSE v

\* InputModal.tsx:66: undefined, null or '' after trimming
IsEmptyAfterTrim(value) == value = Null \/ TrimmedValue(value) = << >>

IsIntegerType(type) == type \in {"uint256", "int256"}

Thrown(err, param) == [ok |-> FALSE, err |-> err, param |-> param, value |-> << >>]
Converted(value) == [ok |-> TRUE, err |-> "", param |-> "", value |-> value]

\* mutant: every conversion runs and the last failure is the one reported
FirstFailure_Last(results, i) ==
    IF \A k \in 1..Len(results) : results[k].ok THEN 0
    ELSE CHOOSE k \in 1..Len(results) :
            ~results[k].ok /\ \A j \in (k + 1)..Len(results) : results[j].ok

\* index of the first failed conversion in results, 0 when none failed
RECURSIVE FirstFailure(_, _)
FirstFailure(results, i) ==
    IF i > Len(results) THEN 0
    ELSE IF ~results[i].ok THEN i
    ELSE FirstFailure(results, i + 1)

\* ------------------------------------------------------------ JSON arrays
\* A number is << "num", n >>, an array is << "array" >> followed by its
\* elements.
IsNumber(v) == v # << >> /\ v[1] = "num"
IsArrayValue(v) == v # << >> /\ v[1] = "array"

RECURSIVE Join(_)
Join(parts) ==
    IF parts = << >> THEN << >>
    ELSE IF Len(parts) = 1 THEN parts[1]
    ELSE parts[1] \o << "," >> \o Join(Tail(parts))

\* String(value): a number prints its decimal digits, an array joins the
\* strings of its elements with commas (Array.prototype.toString)
RECURSIVE JsString(_)
JsString(v) ==
    IF IsNumber(v) THEN ToDecimalString(v[2])
    ELSE IF IsArrayValue(v) THEN Join([k \in 1..(Len(v) - 1) |-> JsString(v[k + 1])])
    ELSE v

\* JSON.stringify(value) of a string, a number or an array of them
RECURSIVE JsonStringify(_)
JsonStringify(v) ==
    IF IsNumber(v) THEN ToDecimalString(v[2])
    ELSE IF IsArrayValue(v)
    THEN << "[" >> \o Join([k \in 1..(Len(v) - 1) |-> JsonStringify(v[k + 1])]) \o << "]" >>
    ELSE << "\"" >> \o v \o << "\"" >>

\* the pieces of s between the commas that lie outside brackets and quotes
RECURSIVE SplitTop(_, _, _, _, _)
SplitTop(s, depth, inString, piece, pieces) ==
    IF s = << >> THEN Append(pieces, piece)
    ELSE IF Head(s) = "," /\ depth = 0 /\ ~inString
    THEN SplitTop(Tail(s), 0, FALSE, << >>, Append(pieces, piece))
    ELSE SplitTop(Tail(s),
                  IF inString THEN depth
                  ELSE IF Head(s) = "[" THEN depth + 1
                  ELSE IF Head(s) = "]" THEN depth - 1
                  ELSE depth,
                  IF Head(s) = "\"" THEN ~inString ELSE inString,
                  Append(piece, Head(s)), pieces)

\* a JSON number without fraction or exponent: no leading zero, no plus sign
IsJsonNumber(t) ==
    LET d == IF t # << >> /\ t[1] = "-" THEN Tail(t) ELSE t
    IN d # << >> /\ AllDigits(d) /\ (Len(d) = 1 \/ d[1] # "0")

\* a JSON string without escapes
IsJsonString(t) ==
    /\ Len(t) >= 2 /\ t[1] = "\"" /\ t[Len(t)] = "\""
    /\ \A i \in 2..(Len(t) - 1) : t[i] # "\""

\* JSON.parse(text) for texts made of integers, strings and arrays: ok is
\* FALSE for the SyntaxError
RECURSIVE JsonValue(_)
RECURSIVE JsonElements(_)

\* the array whose elements are written in pieces
JsonElements(pieces) ==
    IF \A k \in 1..Len(pieces) : JsonValue(Trim(pieces[k])).ok
    THEN [ok |-> TRUE,
          value |-> << "array" >> \o [k \in 1..Len(pieces) |-> JsonValue(Trim(pieces[k])).value]]
    ELSE [ok |-> FALSE, value |-> << >>]

\* the value written in the trimmed text t
JsonValue(t) ==
    IF IsJsonNumber(t) THEN [ok |-> TRUE, value |-> << "num", StringToBigInt(t).n >>]
    ELSE IF IsJsonString(t) THEN [ok |-> TRUE, value |-> SubSeq(t, 2, Len(t) - 1)]
    ELSE IF Len(t) >= 2 /\ t[1] = "[" /\ t[Len(t)] = "]"
    THEN IF Trim(SubSeq(t, 2, Len(t) - 1)) = << >> THEN [ok |-> TRUE, value |-> << "array" >>]
         ELSE JsonElements(SplitTop(Trim(SubSeq(t, 2, Len(t) - 1)), 0, FALSE, << >>, << >>))
    ELSE [ok |-> FALSE, value |-> << >>]

JsonParse(text) == JsonValue(Trim(text))

\* BigInt(item) of an array element: a number converts as it is, anything
\* else through its string
BigIntOf(item) ==
    IF IsNumber(item) THEN [ok |-> TRUE, n |-> item[2]] ELSE ParseBigInt(JsString(item))

IsArrayType(type) == type \in {"uint256[]", "string[]"}
\* abiDef.type.slice(0, -2)
BaseType(type) == IF type = "uint256[]" THEN "uint256" ELSE "string"

\* InputModal.tsx:79-91: the array branch of convertValue.  JSON.parse turns
\* its argument into a string first; every failure inside the try block,
\* BigInt's included, becomes the one error of the catch block.
convertParsed(abiDef, parsed) ==
    IF ~parsed.ok \/ ~IsArrayValue(parsed.value)
    THEN Thrown("InvalidArgument", abiDef.name)
    ELSE IF ~IsIntegerType(BaseType(abiDef.type)) THEN Converted(parsed.value)
    ELSE IF \E k \in 2..Len(parsed.value) : ~BigIntOf(parsed.value[k]).ok
    THEN Thrown("InvalidArgument", abiDef.name)
    ELSE Converted(<< "array" >> \o [k \in 1..(Len(parsed.value) - 1) |->
                                       ToDecimalString(BigIntOf(parsed.value[k + 1]).n)])

convertArray(abiDef, trimmedValue) == convertParsed(abiDef, JsonParse(JsString(trimmedValue)))

\* InputModal.tsx:413-422: the array branch of the earlier processArgs; only
\* the elements that are numbers are turned into decimal strings
convertParsed0(input, parsed) ==
    IF ~parsed.ok \/ ~IsArrayValue(parsed.value)
    THEN Thrown("InvalidArgument", input.name)
    ELSE Converted(<< "array" >> \o
            [k \in 1..(Len(parsed.value) - 1) |->
                IF IsNumber(parsed.value[k + 1]) THEN ToDecimalString(parsed.value[k + 1][2])
                ELSE parsed.value[k + 1]])

convertArray0(input, value) == convertParsed0(input, JsonParse(JsString(value)))

\* mutant: the components of a tuple are copied without being converted, so
\* an empty component is not noticed
convertValue_CopiesComponents(abiDef, value) ==
    IF IsEmptyAfterTrim(value)
    THEN Thrown("MissingArgument", abiDef.name)
    ELSE IF abiDef.type = "tuple"
    THEN Converted(<< "tuple" >> \o [k \in 1..Len(abiDef.components) |->
                                       TrimmedValue(ComponentOf(value, k))])
    ELSE IF IsArrayType(abiDef.type) THEN convertArray(abiDef, TrimmedValue(value))
    ELSE IF IsIntegerType(abiDef.type)
    THEN IF ~ParseBigInt(TrimmedValue(value)).ok
         THEN Thrown("InvalidArgument", abiDef.name)
         ELSE Converted(ToDecimalString(ParseBigInt(TrimmedValue(value)).n))
    ELSE Converted(TrimmedValue(value))

\* InputModal.tsx:64-103 convertValue: the converted value, or the error
\* thrown.  The parameters of AbiTable are addresses, integers and tuples of
\* named components: the emptiness check (65-68), the tuple branch (70-77),
\* the integer branch (92-94) and the pass-through (102) are the branches
\* they take.  A tuple is converted component by component, in order, and the
\* first component that throws ends the conversion.
RECURSIVE convertValue(_, _)
convertValue(abiDef, value) ==
    IF IsEmptyAfterTrim(value)
    THEN Thrown("MissingArgument", abiDef.name)
    ELSE IF abiDef.type = "tuple"
    THEN LET components == abiDef.components
             results == [k \in 1..Len(components) |->
                            convertValue(components[k], ComponentOf(value, k))]
             bad == FirstFailure(results, 1)
         IN IF bad # 0 THEN results[bad]
            ELSE Converted(<< "tuple" >> \o [k \in 1..Len(components) |-> results[k].value])
    ELSE IF IsArrayType(abiDef.type) THEN convertArray(abiDef, TrimmedValue(value))
    ELSE IF IsIntegerType(abiDef.type)
    THEN IF ~ParseBigInt(TrimmedValue(value)).ok
         THEN Thrown("InvalidArgument", abiDef.name)
         ELSE Converted(ToDecimalString(ParseBigInt(TrimmedValue(value)).n))
    ELSE Converted(TrimmedValue(value))

\* InputModal.tsx:105-110, 438-442: the first conversion that threw is the
\* error reported; the converted list when none did
ArgsOrError(results) ==
    IF FirstFailure(results, 1) # 0
    THEN [ok |-> FALSE, err |-> results[FirstFailure(results, 1)].err,
          param |-> results[FirstFailure(results, 1)].param, args |-> << >>]
    ELSE [ok |-> TRUE, err |-> "", param |-> "",
          args |-> [i \in 1..Len(results) |-> results[i].value]]

\* InputModal.tsx:58-111 processArgs: the converted list, or null with the
\* error reported; inputs.map(convertValue) stops at the first throw (105-110)
processArgs(c, values) ==
    IF selectedFunction(c) = NoItem
    THEN [ok |-> FALSE, err |-> "NoFunction", param |-> "", args |-> << >>]
    ELSE ArgsOrError([i \in 1..Len(selectedFunction(c).inputs) |->
                         convertValue(selectedFunction(c).inputs[i], ValueAt(values, i))])

\* InputModal.tsx:33-35 isValueEmpty
isValueEmpty(value) == value = Null \/ value = << >>

\* InputModal.tsx:16-18 getDeep on a path <<index>> or <<index, k>> (the k-th
\* component of the tuple at index)
getDeep(values, path) ==
    IF Len(path) = 1 THEN ValueAt(values, path[1])
    ELSE ComponentOf(ValueAt(values, path[1]), path[2])

\* InputModal.tsx:243-293 renderInputFields: the paths of the fields on
\* screen, those whose saved value is empty
RenderedPaths(inputs, args) ==
    {<< index >> : index \in {i \in 1..Len(inputs) :
                        inputs[i].type # "tuple" /\ isValueEmpty(getDeep(args, << i >>))}}
    \cup
    UNION {{<< index, k >> : k \in {j \in 1..Len(inputs[index].components) :
                                       isValueEmpty(getDeep(args, << index, j >>))}}
              : index \in {i \in 1..Len(inputs) : inputs[i].type = "tuple"}}

\* InputModal.tsx:169-198 checkVisibleInputs: indexes of the inputs still to
\* fill; a tuple is one of them when any of its components is
checkVisibleInputs(inputs, argsSource) ==
    {index \in 1..Len(inputs) :
        \E path \in RenderedPaths(inputs, argsSource) : path[1] = index}

\* InputModal.tsx:20-30 updateDeep: a component written into a value that is
\* not yet an object makes it one
updateDeep(values, path, value) ==
    IF Len(path) = 1 THEN [values EXCEPT ![path[1]] = value]
    ELSE LET old == values[path[1]]
             obj == IF IsTupleValue(old) THEN old ELSE TupleVal(Null, Null)
         IN [values EXCEPT ![path[1]] = [obj EXCEPT ![path[2] + 1] = value]]

\* JSON.stringify of an embedded read directive, as the modal shows it
ReadDirJson == << "{$read}" >>
DirectiveJson(directive) == IF directive = ReadDir THEN ReadDirJson ELSE << "{$read2}" >>

\* InputModal.tsx:128-144 formatSavedArgsForUI (String(arg ?? ''))
RECURSIVE formatSavedArg(_, _)
formatSavedArg(input, arg) ==
    IF input.type = "tuple" /\ IsTupleValue(arg)
    THEN << "tuple" >> \o [k \in 1..Len(input.components) |->
                              formatSavedArg(input.components[k], ComponentOf(arg, k))]
    ELSE IF IsReadDirective(arg) THEN DirectiveJson(arg)
    ELSE IF IsArrayValue(arg) THEN JsonStringify(arg)
    ELSE IF arg = Null THEN << >>
    ELSE arg

\* InputModal.tsx:116-126 createDefaultValue
createDefaultValue(input) ==
    IF input.type = "tuple"
    THEN << "tuple" >> \o [k \in 1..Len(input.components) |-> << >>]
    ELSE << >>

\* InputModal.tsx:146-150: the form state the modal starts with
InitialArgValues(c) ==
    LET inputs == selectedFunction(c).inputs
    IN IF Len(c.args) = Len(inputs)
       THEN [i \in 1..Len(inputs) |-> formatSavedArg(inputs[i], c.args[i])]
       ELSE [i \in 1..Len(inputs) |-> createDefaultValue(inputs[i])]

\* ---------------------------------------------------- network coordination
\* mutant: only chainName is required of the hints
HintsComplete_NameOnly(c) == c.chainName

\* useChainsawActions.ts:34 / MainView.tsx:114: chainName, a non-empty rpcUrls
\* and nativeCurrency are all present
HintsComplete(c) == c.chainName /\ c.rpcUrlsLen > 0 /\ c.nativeCurrency

\* mutant: every refusal is taken for an unrecognized chain
IsUnrecognizedChain_AnyError(code) == code # Resolved

\* useChainsawActions.ts:59 / MainView.tsx:111-112
IsUnrecognizedChain(code) == code = UnrecognizedChainCode

\* ------------------------------------------------------------------ state
VARIABLES
    impl,                   \* which implementation of the pipeline runs
    config,                 \* the clicked button's ButtonConfig
    chain,                  \* active chain id (useAccount().chain?.id / chainId)
    isConnected,            \* useAccount().isConnected with an address
    walletClient,           \* walletClient (hook) / client (view) is available
    publicClient,           \* publicClient is available (hook)
    pc,                     \* position of the invocation
    op,                     \* "read" (executeRead) or "tx" (handleTransaction / executeTransaction)
    callArgs,               \* the args the running operation was called with
    isInputModalOpen,       \* MainView state
    currentConfigForInput,  \* MainView state: << >> is null, <<c>> a config
    argValues,              \* InputModal state
    savedArgs,              \* settings[key].args as persisted by Save
    requests,               \* wallet requests issued by the coordinator, in order
    responses,              \* the wallet's answers to them, in order
    coord,                  \* "none", "pending", "ok", "fail": state of coordination
    readIdx,                \* resolveReadCalls: index of the slot being resolved
    resolvedArgs,           \* resolveReadCalls: slots resolved so far
    calls,                  \* chain-client / wallet primitives called, in order
    notifications,          \* showNotification calls, in order
    readState,              \* view: "none", "reading", "data" (setReadData), "error" (setReadError)
    app                     \* state outside the pipeline: the add-button modal, the App component

\* nothing of the App component or the add-button modal takes part
NoApp == [modal |-> "closed"]

vars == << impl, config, chain, isConnected, walletClient, publicClient, pc, op,
           callArgs, isInputModalOpen, currentConfigForInput, argValues, savedArgs,
           requests, responses, coord, readIdx, resolvedArgs, calls,
           notifications, readState, app >>

Impls == {"hook", "view", "legacy", "hook0"}

\* the two versions of the hook share the click handler, the modal wiring and
\* the dispatcher
IsHook == impl \in {"hook", "hook0"}

Init ==
    /\ impl \in Impls
    /\ config \in IF impl = "legacy" THEN LegacyConfigs
                 ELSE IF impl = "hook0" THEN ReadConfigs
                 ELSE Configs
    /\ chain \in IF \/ config \in NetConfigs
                   \/ impl \in {"legacy", "hook0"}
                   \/ (config.abi = NoAbi /\ ~config.data)
                THEN ChainIds ELSE {config.id}
    /\ isConnected \in IF config \in NetConfigs THEN BOOLEAN ELSE {TRUE}
    /\ walletClient \in BOOLEAN
    /\ publicClient \in IF IsHook THEN BOOLEAN ELSE {TRUE}
    /\ pc = "idle"
    /\ op = "none"
    /\ callArgs = << >>
    /\ isInputModalOpen = FALSE
    /\ currentConfigForInput = << >>
    /\ argValues = << >>
    /\ savedArgs = config.args
    /\ requests = << >>
    /\ responses = << >>
    /\ coord = "none"
    /\ readIdx = 0
    /\ resolvedArgs = << >>
    /\ calls = << >>
    /\ notifications = << >>
    /\ readState = "none"
    /\ app = NoApp


\* ---------------------------------------------------------------- helpers
NoteP(type, kind, cause, param) ==
    [type |-> type, kind |-> kind, cause |-> cause, param |-> param]
Note(type, kind, cause) == NoteP(type, kind, cause, "")
Call(prim, functionName, args, embedded) ==
    [prim |-> prim, functionName |-> functionName, args |-> args, embedded |-> embedded]

envVars == << impl, config, isConnected, walletClient, publicClient, app >>
modalVars == << isInputModalOpen, currentConfigForInput, argValues, savedArgs >>
coordVars == << requests, responses, coord, chain >>
readVars == << readIdx, resolvedArgs >>

\* the config the modal works on
ModalConfig == currentConfigForInput[1]

\* The catch block of the running operation (useChainsawActions.ts:136-139,
\* 213-217): one error report, after the notes the thrower showed itself.
OpFailedKind == IF op = "read" THEN "ReadFailed" ELSE "TxFailed"

\* mutant: the catch block reports the error and runs the final call again
Caught_Resubmits(shown, cause) ==
    /\ notifications' = notifications \o shown \o << Note("error", OpFailedKind, cause) >>
    /\ pc' = IF pc = "awaitSubmit" THEN "final" ELSE "done"

\* mutant: the catch block swallows the error without a report
Caught_Swallows(shown, cause) ==
    /\ notifications' = notifications \o shown
    /\ pc' = "done"

Caught(shown, cause) ==
    /\ notifications' = notifications \o shown \o << Note("error", OpFailedKind, cause) >>
    /\ pc' = "done"

\* mutant: the read-only flag is ignored when the operation is chosen
OperationFor_AlwaysTx(c) == "tx"

\* MainView.tsx:285-289, 294-298: read-only configs run executeRead, the
\* others executeTransaction
OperationFor(c) == IF c.readOnly THEN "read" ELSE "tx"
EntryOf(operation) == IF operation = "read" THEN "executeRead" ELSE "handleTransaction"

\* ------------------------------------------------------------------ click
\* useChainsawActions.ts:104-106 getExecutionConfig: a shallow copy
getExecutionConfig(c) == c

\* MainView.tsx:498-544 handleButtonClick
HookClick ==
    /\ pc = "idle" /\ IsHook
    /\ LET execConfig == getExecutionConfig(config)
       IN IF ~isConnected
          THEN /\ notifications' = Append(notifications, Note("info", "ConnectWallet", ""))
               /\ pc' = "done"
               /\ UNCHANGED << op, callArgs, isInputModalOpen, currentConfigForInput >>
          ELSE IF config.chained
          THEN /\ notifications' = Append(notifications, Note("info", "ChainedNotImplemented", ""))
               /\ pc' = "done"
               /\ UNCHANGED << op, callArgs, isInputModalOpen, currentConfigForInput >>
          ELSE IF execConfig.readOnly
          THEN /\ op' = "read" /\ callArgs' = execConfig.args /\ pc' = "executeRead"
               /\ UNCHANGED << notifications, isInputModalOpen, currentConfigForInput >>
          ELSE IF hasEmptyArgs(execConfig)
          THEN /\ currentConfigForInput' = << execConfig >>
               /\ isInputModalOpen' = TRUE
               /\ pc' = "modalOpening"
               /\ UNCHANGED << op, callArgs, notifications >>
          ELSE /\ op' = "tx" /\ callArgs' = execConfig.args /\ pc' = "handleTransaction"
               /\ UNCHANGED << notifications, isInputModalOpen, currentConfigForInput >>
    /\ UNCHANGED << envVars, argValues, savedArgs, coordVars, readVars, calls, readState >>

\* MainView.tsx:250-290 handleTransaction (the click handler of the view)
ViewClick ==
    /\ pc = "idle" /\ impl = "view"
    /\ IF ~isConnected
       THEN /\ notifications' = Append(notifications, Note("info", "ConnectWallet", ""))
            /\ pc' = "done"
            /\ UNCHANGED << op, callArgs, isInputModalOpen, currentConfigForInput >>
       ELSE IF ViewNeedsInput(config)
       THEN /\ currentConfigForInput' = << config >>
            /\ isInputModalOpen' = TRUE
            /\ pc' = "modalOpening"
            /\ UNCHANGED << op, callArgs, notifications >>
       ELSE /\ op' = OperationFor(config)
            /\ callArgs' = config.args
            /\ pc' = EntryOf(OperationFor(config))
            /\ UNCHANGED << notifications, isInputModalOpen, currentConfigForInput >>
    /\ UNCHANGED << envVars, argValues, savedArgs, coordVars, readVars, calls, readState >>


\* ------------------------------------------------------------ input modal
\* what the user types into a field: nothing or one character
TypedValues == StringsOfLen(0) \cup StringsOfLen(1)

\* MainView.tsx:546-552 (hook) / 292-302 (view) handleInputModalSubmit: the
\* operation starts with the modal's args, the modal closes
OnSubmit(c, args) ==
    /\ op' = IF IsHook THEN "tx" ELSE OperationFor(c)
    /\ callArgs' = args
    /\ pc' = EntryOf(op')
    /\ isInputModalOpen' = FALSE
    /\ currentConfigForInput' = << >>

\* MainView.tsx:609 (hook) / 316-319 (view) onClose
OnClose ==
    /\ isInputModalOpen' = FALSE
    /\ currentConfigForInput' = IF IsHook THEN currentConfigForInput ELSE << >>
    /\ pc' = "done"
    /\ UNCHANGED << op, callArgs >>

ArgErrorNote(result) ==
    IF result.err = "NoFunction" THEN Note("error", "NoFunction", "")
    ELSE NoteP("error", "ArgError", result.err, result.param)

\* InputModal.tsx:113-156 and 224-240: the effects run when the modal opens.
\* The form state is initialised; when no input is left to fill the saved
\* args are processed and submitted at once, or the modal closes on an error.
ModalEffects ==
    /\ pc = "modalOpening" /\ impl # "legacy"
    /\ LET c == ModalConfig
           f == selectedFunction(c)
       IN IF f = NoItem
          THEN /\ pc' = "modal"
               /\ UNCHANGED << op, callArgs, isInputModalOpen, currentConfigForInput,
                               argValues, notifications >>
          ELSE /\ argValues' = InitialArgValues(c)
               /\ IF checkVisibleInputs(f.inputs, c.args) # {}
                  THEN /\ pc' = "modal"
                       /\ UNCHANGED << op, callArgs, isInputModalOpen,
                                       currentConfigForInput, notifications >>
                  ELSE IF processArgs(c, c.args).ok
                  THEN /\ OnSubmit(c, processArgs(c, c.args).args)
                       /\ UNCHANGED notifications
                  ELSE /\ notifications' =
                              Append(notifications, ArgErrorNote(processArgs(c, c.args)))
                       /\ OnClose
    /\ UNCHANGED << envVars, savedArgs, coordVars, readVars, calls, readState >>

\* InputModal.tsx:295-305: the form is on screen only when a function was
\* selected and at least one field is rendered
ModalOnScreen ==
    /\ pc = "modal" /\ impl # "legacy"
    /\ selectedFunction(ModalConfig) # NoItem
    /\ checkVisibleInputs(selectedFunction(ModalConfig).inputs, ModalConfig.args) # {}

\* InputModal.tsx:158-160 handleArgChange on a rendered field
ModalEdit ==
    /\ ModalOnScreen
    /\ \E path \in RenderedPaths(selectedFunction(ModalConfig).inputs, ModalConfig.args),
          v \in TypedValues :
          /\ getDeep(argValues, path) # v
          /\ argValues' = updateDeep(argValues, path, v)
    /\ UNCHANGED << envVars, pc, op, callArgs, isInputModalOpen, currentConfigForInput,
                    savedArgs, coordVars, readVars, calls, notifications, readState >>

\* InputModal.tsx:162-167 handleSubmit (Send)
ModalSend ==
    /\ ModalOnScreen
    /\ LET result == processArgs(ModalConfig, argValues)
       IN IF result.ok
          THEN /\ OnSubmit(ModalConfig, result.args)
               /\ UNCHANGED notifications
          ELSE /\ Len(notifications) < MaxNotes
               /\ notifications' = Append(notifications, ArgErrorNote(result))
               /\ UNCHANGED << pc, op, callArgs, isInputModalOpen, currentConfigForInput >>
    /\ UNCHANGED << envVars, argValues, savedArgs, coordVars, readVars, calls, readState >>

\* mutant: Save never closes the modal
ModalSave_StaysOpen ==
    /\ ModalOnScreen
    /\ Len(notifications) < MaxNotes
    /\ savedArgs' = argValues
    /\ notifications' = notifications
          \o (IF IsHook THEN << Note("success", "ButtonSaved", "") >> ELSE << >>)
          \o << Note("success", "InputsSaved", "") >>
    /\ currentConfigForInput' =
          IF IsHook THEN currentConfigForInput
          ELSE << [ModalConfig EXCEPT !.args = argValues] >>
    /\ pc' = IF IsHook THEN pc ELSE "modalOpening"
    /\ UNCHANGED << op, callArgs, isInputModalOpen >>
    /\ UNCHANGED << envVars, argValues, coordVars, readVars, calls, readState >>

\* InputModal.tsx:200-212 handleSave with MainView.tsx:554-560 (hook) /
\* 304-314 (view) handleInputModalSave
\* In the view the modal's config is replaced by the saved one, so the
\* modal's effects run again on it.
ModalSave ==
    /\ ModalOnScreen
    /\ Len(notifications) < MaxNotes
    /\ savedArgs' = argValues
    /\ notifications' = notifications
          \o (IF IsHook THEN << Note("success", "ButtonSaved", "") >> ELSE << >>)
          \o << Note("success", "InputsSaved", "") >>
    /\ IF checkVisibleInputs(selectedFunction(ModalConfig).inputs, argValues) = {}
       THEN OnClose
       ELSE /\ currentConfigForInput' =
                  IF IsHook THEN currentConfigForInput
                  ELSE << [ModalConfig EXCEPT !.args = argValues] >>
            /\ pc' = IF IsHook THEN pc ELSE "modalOpening"
            /\ UNCHANGED << op, callArgs, isInputModalOpen >>
    /\ UNCHANGED << envVars, argValues, coordVars, readVars, calls, readState >>

\* InputModal.tsx:326-331 Cancel
ModalCancel ==
    /\ ModalOnScreen
    /\ OnClose
    /\ UNCHANGED << envVars, argValues, savedArgs, coordVars, readVars, calls,
                    notifications, readState >>


\* ------------------------------------------------------- operation entry
\* useChainsawActions.ts:108-115 (hook) / MainView.tsx:149-152 (view): the
\* guards of executeRead before it calls the coordinator
ExecuteReadEntry ==
    /\ pc = "executeRead"
    /\ IF IsHook /\ ~publicClient
       THEN /\ notifications' = Append(notifications, Note("error", "ClientNotReady", ""))
            /\ pc' = "done"
            /\ UNCHANGED coord
       ELSE /\ pc' = "coord"
            /\ coord' = "pending"
            /\ UNCHANGED notifications
    /\ UNCHANGED << envVars, op, callArgs, modalVars, requests, responses, chain,
                    readVars, calls, readState >>

\* useChainsawActions.ts:142-149 handleTransaction (hook) / MainView.tsx:193-199
\* executeTransaction (view): the guards before the coordinator is called
HandleTransactionEntry ==
    /\ pc = "handleTransaction"
    /\ IF ~walletClient
       THEN /\ notifications' = Append(notifications, Note("info", "ConnectWallet", ""))
            /\ pc' = "done"
            /\ UNCHANGED coord
       ELSE /\ pc' = "coord"
            /\ coord' = "pending"
            /\ UNCHANGED notifications
    /\ UNCHANGED << envVars, op, callArgs, modalVars, requests, responses, chain,
                    readVars, calls, readState >>

\* ---------------------------------------------------- network coordination
\* Coordination ends in failure.  In the hook the coordinator throws and the
\* operation's catch block reports it; in the view it returns false and the
\* operation returns.
\* mutant: a failed coordination is reported and the operation goes on
CoordFail_Proceeds(shown, cause) ==
    /\ coord' = "fail"
    /\ notifications' = notifications \o shown
    /\ pc' = "dispatch"

CoordFail(shown, cause) ==
    /\ coord' = "fail"
    /\ IF IsHook
       THEN Caught(shown, cause)
       ELSE /\ notifications' = notifications \o shown
            /\ pc' = "done"

CoordOk ==
    /\ coord' = "ok"
    /\ pc' = "dispatch"
    /\ UNCHANGED notifications

IssueRequest(request, await) ==
    /\ requests' = Append(requests, request)
    /\ pc' = await
    /\ UNCHANGED << coord, notifications >>

\* useChainsawActions.ts:25-57 (hook): the chain descriptor is looked up or
\* built before the active chain is compared
HookCoordStart ==
    /\ pc = "coord" /\ impl = "hook"
    /\ IF config.id = NaNId
       THEN CoordFail(<< >>, "InvalidChainId") /\ UNCHANGED requests
       ELSE IF config.id \notin chainsById /\ ~HintsComplete(config)
       THEN CoordFail(<< >>, "UnknownChain") /\ UNCHANGED requests
       ELSE IF chain = config.id
       THEN CoordOk /\ UNCHANGED requests
       ELSE IssueRequest("switch", "awaitSwitch")
    /\ UNCHANGED << envVars, op, callArgs, modalVars, responses, chain, readVars,
                    calls, readState >>

\* MainView.tsx:99-108 (view); numberToHex of a non-numeric id throws inside
\* the try block and is handled as a switch failure without error code
ViewCoordStart ==
    /\ pc = "coord" /\ impl = "view"
    /\ IF ~walletClient \/ chain = config.id
       THEN CoordOk /\ UNCHANGED requests
       ELSE IF config.id = NaNId
       THEN CoordFail(<< Note("error", "SwitchFailed", "") >>, "") /\ UNCHANGED requests
       ELSE IssueRequest("switch", "awaitSwitch")
    /\ UNCHANGED << envVars, op, callArgs, modalVars, responses, chain, readVars,
                    calls, readState >>

\* The wallet answers the first switch request.
\* useChainsawActions.ts:57-72 (hook) / MainView.tsx:109-146 (view)
SwitchResponse ==
    /\ pc = "awaitSwitch"
    /\ \E code \in {Resolved, UnrecognizedChainCode, OtherErrorCode} :
          /\ responses' = Append(responses, code)
          /\ IF code = Resolved
             THEN CoordOk /\ chain' = config.id /\ UNCHANGED requests
             ELSE IF ~IsUnrecognizedChain(code)
             THEN /\ CoordFail(<< Note("error", "SwitchFailed", "") >>, "SwitchFailed")
                  /\ UNCHANGED << requests, chain >>
             ELSE IF impl = "hook"
             THEN /\ IF walletClient
                     THEN IssueRequest("addChain", "awaitAdd")
                     ELSE IssueRequest("switch", "awaitSwitchRetry")
                  /\ UNCHANGED chain
             ELSE /\ IF ~HintsComplete(config)
                     THEN /\ CoordFail(<< Note("error", "ChainNotFound", "") >>, "")
                          /\ UNCHANGED requests
                     ELSE IssueRequest("addChain", "awaitAdd")
                  /\ UNCHANGED chain
    /\ UNCHANGED << envVars, op, callArgs, modalVars, readVars, calls, readState >>

\* The wallet answers the addChain request; a wallet may activate the chain
\* it has just added.  useChainsawActions.ts:61-67 (hook) / MainView.tsx:119-137
AddChainResponse ==
    /\ pc = "awaitAdd"
    /\ \E code \in {Resolved, OtherErrorCode} :
          /\ responses' = Append(responses, code)
          /\ IF code # Resolved
             THEN /\ CoordFail(<< Note("error",
                                       IF impl = "hook" THEN "AddOrSwitchFailed" ELSE "AddFailed",
                                       "") >>, "AddFailed")
                  /\ UNCHANGED << requests, chain >>
             ELSE /\ chain' \in {chain, config.id}
                  /\ IF impl = "hook"
                     THEN IssueRequest("switch", "awaitSwitchRetry")
                     ELSE CoordOk /\ UNCHANGED requests
    /\ UNCHANGED << envVars, op, callArgs, modalVars, readVars, calls, readState >>

\* mutant: a retried switch that finds the chain unknown registers it again
SwitchRetryResponse_RegistersAgain ==
    /\ pc = "awaitSwitchRetry"
    /\ \E code \in {Resolved, UnrecognizedChainCode, OtherErrorCode} :
          /\ responses' = Append(responses, code)
          /\ IF code = Resolved
             THEN CoordOk /\ chain' = config.id /\ UNCHANGED requests
             ELSE IF code = UnrecognizedChainCode
             THEN IssueRequest("addChain", "awaitAdd") /\ UNCHANGED chain
             ELSE /\ CoordFail(<< Note("error", "AddOrSwitchFailed", "") >>, "SwitchFailed")
                  /\ UNCHANGED << chain, requests >>
    /\ UNCHANGED << envVars, op, callArgs, modalVars, readVars, calls, readState >>

\* The wallet answers the switch retried after registration.
\* useChainsawActions.ts:63-67
SwitchRetryResponse ==
    /\ pc = "awaitSwitchRetry"
    /\ \E code \in {Resolved, UnrecognizedChainCode, OtherErrorCode} :
          /\ responses' = Append(responses, code)
          /\ IF code = Resolved
             THEN CoordOk /\ chain' = config.id
             ELSE /\ CoordFail(<< Note("error", "AddOrSwitchFailed", "") >>, "SwitchFailed")
                  /\ UNCHANGED chain
    /\ UNCHANGED << envVars, op, callArgs, modalVars, requests, readVars, calls, readState >>


\* --------------------------------------------------------------- dispatch
IssueCall(call, await) ==
    /\ calls' = Append(calls, call)
    /\ pc' = await
    /\ UNCHANGED notifications

\* the value an embedded read returns
ReadData == Str1
\* what readContract resolves to: the bare value of a function with one
\* output, the array of the values of a function with several
ReadResult(directive) ==
    IF ReadOutputs(directive) = 1 THEN ReadData ELSE << "array", ReadData, ReadData >>

\* useChainsawActions.ts:116 (read), 151-156 and 186-200 (transaction): after
\* coordination the hook resolves embedded reads when there is an abi (always
\* for a read), sends raw data when there is only data, and rejects a config
\* with neither
HookDispatch ==
    /\ pc = "dispatch" /\ IsHook
    /\ IF op = "read" \/ config.abi # NoAbi
       THEN /\ pc' = "reads"
            /\ readIdx' = 1
            /\ resolvedArgs' = << >>
            /\ UNCHANGED << calls, notifications >>
       ELSE /\ UNCHANGED readVars
            /\ IF config.data
               THEN IF ~isAddress(config.address)
                    THEN Caught(<< >>, "InvalidAddress") /\ UNCHANGED calls
                    ELSE IssueCall(Call("sendTransaction", NoName, << >>, FALSE), "awaitSubmit")
               ELSE Caught(<< >>, "InvalidConfig") /\ UNCHANGED calls
    /\ UNCHANGED << envVars, op, callArgs, modalVars, coordVars, readState >>

\* mutant: the loop takes the last directive first
RECURSIVE NextReadDirective_Last(_, _)
NextReadDirective_Last(args, i) ==
    IF i > Len(args) THEN 0
    ELSE IF NextReadDirective_Last(args, i + 1) # 0 THEN NextReadDirective_Last(args, i + 1)
    ELSE IF IsReadDirective(args[i]) THEN i
    ELSE 0

\* index of the first embedded read directive at or after i, 0 when none
RECURSIVE NextReadDirective(_, _)
NextReadDirective(args, i) ==
    IF i > Len(args) THEN 0
    ELSE IF IsReadDirective(args[i]) THEN i
    ELSE NextReadDirective(args, i + 1)

\* useChainsawActions.ts:76-102 resolveReadCalls: literal slots are copied up
\* to the next directive, whose read is issued and awaited
ResolveReadCalls ==
    /\ pc = "reads" /\ impl = "hook"
    /\ LET j == NextReadDirective(callArgs, readIdx)
       IN IF j = 0
          THEN /\ resolvedArgs' = resolvedArgs \o SubSeq(callArgs, readIdx, Len(callArgs))
               /\ readIdx' = Len(callArgs) + 1
               /\ pc' = "final"
               /\ UNCHANGED << calls, notifications >>
          ELSE /\ resolvedArgs' = resolvedArgs \o SubSeq(callArgs, readIdx, j - 1)
               /\ readIdx' = j
               /\ IF ~publicClient
                  THEN Caught(<< >>, "NoPublicClient") /\ UNCHANGED calls
                  ELSE IssueCall(Call("readContract", ReadFunctionName(callArgs[j]), << >>, TRUE),
                                 "awaitEmbedded")
    /\ UNCHANGED << envVars, op, callArgs, modalVars, coordVars, readState >>

\* the chain client answers an embedded read (useChainsawActions.ts:92-96)
EmbeddedReadResponse ==
    /\ pc = "awaitEmbedded"
    /\ \E ok \in BOOLEAN :
          IF ok
          THEN /\ resolvedArgs' = Append(resolvedArgs, ReadResult(callArgs[readIdx]))
               /\ readIdx' = readIdx + 1
               /\ pc' = "reads"
               /\ UNCHANGED notifications
          ELSE /\ Caught(<< >>, "EmbeddedReadFailed")
               /\ UNCHANGED readVars
    /\ UNCHANGED << envVars, op, callArgs, modalVars, coordVars, calls, readState >>

\* useChainsawActions.ts:152: an empty address means a deployment
IsDeploy(c) == c.address = AddrEmpty

\* mutant: the bytecode check is skipped
DeploymentMissingBytecode_Never(c) == FALSE

\* useChainsawActions.ts:158-161: a deployment needs bytecode in data
DeploymentMissingBytecode(c) == IsDeploy(c) /\ ~c.data

\* useChainsawActions.ts:118-123 (read) and 158-185 (transaction with an abi):
\* the final call
HookFinal ==
    /\ pc = "final"
    /\ IF op = "read"
       THEN IssueCall(Call("readContract", config.functionName, resolvedArgs, FALSE), "awaitRead")
       ELSE IF DeploymentMissingBytecode(config)
       THEN Caught(<< >>, "DeploymentMissingBytecode") /\ UNCHANGED calls
       ELSE IF IsDeploy(config)
       THEN IssueCall(Call("deployContract", NoName, resolvedArgs, FALSE), "awaitSubmit")
       ELSE IF ~isAddress(config.address)
       THEN Caught(<< >>, "InvalidAddress") /\ UNCHANGED calls
       ELSE IssueCall(Call("writeContract", config.functionName, resolvedArgs, FALSE), "awaitSubmit")
    /\ UNCHANGED << envVars, op, callArgs, modalVars, coordVars, readVars, readState >>

\* the abi entry viem's encodeFunctionData (and writeContract through it)
\* encodes against: the function of that name, or the abi's first entry when
\* no name is passed and that entry is a function
LibraryFunction(c, functionName) ==
    IF functionName # NoName THEN FindFunction(AbiItems(c.abi), functionName)
    ELSE IF AbiItems(c.abi) # << >> /\ AbiItems(c.abi)[1].type = "function"
    THEN AbiItems(c.abi)[1]
    ELSE NoItem

\* mutant: the library does not compare the argument count with the inputs
EncodeCanSucceed_IgnoresCount(c, functionName, args) ==
    LibraryFunction(c, functionName) # NoItem

\* viem encodeFunctionData can succeed only when the function is in the abi
\* and the argument count matches its inputs
EncodeCanSucceed(c, functionName, args) ==
    /\ LibraryFunction(c, functionName) # NoItem
    /\ Len(args) = Len(LibraryFunction(c, functionName).inputs)

\* MainView.tsx:155-181 executeRead after coordination (view)
ViewDispatchRead ==
    /\ pc = "dispatch" /\ impl = "view" /\ op = "read"
    /\ IF InferFunctionName(config) = NoName
       THEN /\ readState' = "error"
            /\ pc' = "done"
            /\ UNCHANGED << calls, notifications >>
       ELSE /\ readState' = "reading"
            /\ IssueCall(Call("readContract", InferFunctionName(config), callArgs, FALSE),
                         "awaitRead")
    /\ UNCHANGED << envVars, op, callArgs, modalVars, coordVars, readVars >>

\* MainView.tsx:202-247 executeTransaction after coordination (view)
ViewDispatchTx ==
    /\ pc = "dispatch" /\ impl = "view" /\ op = "tx"
    /\ IF config.abi # NoAbi
       THEN IF InferFunctionName(config) = NoName
            THEN /\ notifications' = Append(notifications, Note("error", "EncodeError", "Ambiguous"))
                 /\ pc' = "done"
                 /\ UNCHANGED calls
            ELSE \E encoded \in IF EncodeCanSucceed(config, InferFunctionName(config), callArgs)
                                THEN BOOLEAN ELSE {FALSE} :
                    IF encoded
                    THEN IssueCall(Call("sendTransaction", InferFunctionName(config), callArgs, FALSE),
                                   "awaitSubmit")
                    ELSE /\ notifications' =
                                Append(notifications, Note("error", "EncodeError", "Encoding"))
                         /\ pc' = "done"
                         /\ UNCHANGED calls
       ELSE IF config.data
       THEN IssueCall(Call("sendTransaction", NoName, << >>, FALSE), "awaitSubmit")
       ELSE /\ notifications' = Append(notifications, Note("error", "NoTxData", ""))
            /\ pc' = "done"
            /\ UNCHANGED calls
    /\ UNCHANGED << envVars, op, callArgs, modalVars, coordVars, readVars, readState >>

\* the chain client answers the final read: useChainsawActions.ts:125-139
\* (hook) / MainView.tsx:183-190 (view)
ReadResponse ==
    /\ pc = "awaitRead"
    /\ \E ok \in BOOLEAN :
          IF IsHook
          THEN /\ IF ok
                  THEN /\ notifications' = Append(notifications, Note("read", "ReadOk", ""))
                       /\ pc' = "done"
                  ELSE Caught(<< >>, "ReadReverted")
               /\ UNCHANGED readState
          ELSE /\ readState' = IF ok THEN "data" ELSE "error"
               /\ pc' = "done"
               /\ UNCHANGED notifications
    /\ UNCHANGED << envVars, op, callArgs, modalVars, coordVars, readVars, calls >>

\* the wallet answers the submission: useChainsawActions.ts:202-205, 213-217
\* (hook) / MainView.tsx:236-246 (view) / part_002:126-141.  writeContract
\* encodes the call before the wallet is asked and throws when it cannot.
SubmitResponse ==
    /\ pc = "awaitSubmit"
    /\ \E outcome \in IF /\ calls[Len(calls)].prim = "writeContract"
                         /\ ~EncodeCanSucceed(config, calls[Len(calls)].functionName,
                                              calls[Len(calls)].args)
                      THEN {"encoding"} ELSE {"hash", "rejected", "failed"} :
          IF IsHook
          THEN IF outcome = "hash"
               THEN /\ notifications' = Append(notifications, Note("success", "TxSent", ""))
                    /\ pc' = IF publicClient THEN "awaitReceipt" ELSE "done"
               ELSE Caught(<< >>,
                      IF outcome # "encoding" THEN outcome
                      ELSE IF LibraryFunction(config, calls[Len(calls)].functionName) = NoItem
                      THEN "FunctionNotFound"
                      ELSE "ArgumentCountMismatch")
          ELSE /\ notifications' = Append(notifications,
                      IF outcome = "hash" THEN Note("success", "TxSent", "")
                      ELSE IF outcome = "rejected" THEN Note("info", "TxRejected", "")
                      ELSE Note("error", "TxFailed", "failed"))
               /\ pc' = "done"
    /\ UNCHANGED << envVars, op, callArgs, modalVars, coordVars, readVars, calls, readState >>

\* waitForTransactionReceipt answers: useChainsawActions.ts:204-217
ReceiptResponse ==
    /\ pc = "awaitReceipt"
    /\ \E outcome \in {"success", "reverted", "threw"} :
          IF outcome = "success"
          THEN /\ notifications' = Append(notifications, Note("success", "TxConfirmed", ""))
               /\ pc' = "done"
          ELSE IF outcome = "reverted"
          THEN /\ notifications' = Append(notifications, Note("error", "TxReverted", ""))
               /\ pc' = "done"
          ELSE Caught(<< >>, "Receipt")
    /\ UNCHANGED << envVars, op, callArgs, modalVars, coordVars, readVars, calls, readState >>

\* ------------------------------------------------------ the earlier hook
\* useChainsawActions.ts:285-292 (executeRead) and 325-332 (handleTransaction):
\* the operation asks wagmi to switch when the active chain is not the config's
Hook0CoordStart ==
    /\ pc = "coord" /\ impl = "hook0"
    /\ IF chain # config.id
       THEN /\ requests' = Append(requests, "switchChain")
            /\ pc' = "awaitSwitchChain"
            /\ UNCHANGED << coord, notifications >>
       ELSE CoordOk /\ UNCHANGED requests
    /\ UNCHANGED << envVars, op, callArgs, modalVars, responses, chain, readVars, calls,
                    readState >>

\* useChainsawActions.ts:234-269 resolveReadCalls of the earlier hook.  The
\* chain it compares is the one the callback was created with, which differs
\* from the config's exactly when the operation had to switch on entry: the
\* switch is then asked again before each embedded read.
Hook0ResolveReadCalls ==
    /\ pc = "reads" /\ impl = "hook0"
    /\ LET j == NextReadDirective(callArgs, readIdx)
       IN IF j = 0
          THEN /\ resolvedArgs' = resolvedArgs \o SubSeq(callArgs, readIdx, Len(callArgs))
               /\ readIdx' = Len(callArgs) + 1
               /\ pc' = "final"
               /\ UNCHANGED << calls, notifications, requests >>
          ELSE /\ resolvedArgs' = resolvedArgs \o SubSeq(callArgs, readIdx, j - 1)
               /\ readIdx' = j
               /\ IF ~publicClient
                  THEN Caught(<< >>, "NoPublicClient") /\ UNCHANGED << calls, requests >>
                  ELSE IF requests # << >>
                  THEN /\ requests' = Append(requests, "switchChain")
                       /\ pc' = "awaitSwitchChain"
                       /\ UNCHANGED << calls, notifications >>
                  ELSE /\ IssueCall(Call("readContract", ReadFunctionName(callArgs[j]), << >>, TRUE),
                                    "awaitEmbedded")
                       /\ UNCHANGED requests
    /\ UNCHANGED << envVars, op, callArgs, modalVars, responses, coord, chain, readState >>

\* wagmi answers switchChainAsync: on entry (coordination is pending) the
\* operation goes on to its dispatcher, before an embedded read that read is
\* issued; a refusal is thrown into the operation's catch block
Hook0SwitchChainResponse ==
    /\ pc = "awaitSwitchChain"
    /\ \E ok \in BOOLEAN :
          IF ok
          THEN /\ chain' = config.id
               /\ IF coord = "pending"
                  THEN CoordOk /\ UNCHANGED calls
                  ELSE /\ IssueCall(Call("readContract", ReadFunctionName(callArgs[readIdx]),
                                         << >>, TRUE), "awaitEmbedded")
                       /\ UNCHANGED coord
          ELSE /\ Caught(<< >>, "SwitchFailed")
               /\ coord' = IF coord = "pending" THEN "fail" ELSE coord
               /\ UNCHANGED << chain, calls >>
    /\ UNCHANGED << envVars, op, callArgs, modalVars, requests, responses, readVars, readState >>

\* ------------------------------------------------------ the first MainView
\* part_002:202-228 areAllArgsPreFilled: the saved args fill every input, a
\* tuple being filled when it is an object whose components are all filled
RECURSIVE areAllArgsPreFilled(_, _)
areAllArgsPreFilled(inputs, args) ==
    /\ Len(inputs) = Len(args)
    /\ \A index \in 1..Len(inputs) :
          IF inputs[index].type = "tuple"
          THEN /\ IsTupleValue(args[index])
               /\ areAllArgsPreFilled(inputs[index].components,
                     [k \in 1..Len(inputs[index].components) |-> ComponentOf(args[index], k)])
          ELSE args[index] # Null /\ args[index] # << >>

\* part_002:181-249 handleTransaction (the click handler)
LegacyClick ==
    /\ pc = "idle" /\ impl = "legacy"
    /\ LET functionAbi == FindFunction(AbiItems(config.abi), InferFunctionName(config))
       IN IF ~isConnected
          THEN /\ notifications' = Append(notifications, Note("info", "ConnectWallet", ""))
               /\ pc' = "done"
               /\ UNCHANGED << op, callArgs, isInputModalOpen, currentConfigForInput >>
          ELSE IF /\ config.abi # NoAbi /\ functionAbi # NoItem
                  /\ Len(functionAbi.inputs) > 0
                  /\ ~areAllArgsPreFilled(functionAbi.inputs, config.args)
          THEN /\ currentConfigForInput' = << config >>
               /\ isInputModalOpen' = TRUE
               /\ pc' = "modalOpening"
               /\ UNCHANGED << op, callArgs, notifications >>
          ELSE /\ op' = "tx" /\ callArgs' = config.args /\ pc' = "executeTransaction"
               /\ UNCHANGED << notifications, isInputModalOpen, currentConfigForInput >>
    /\ UNCHANGED << envVars, argValues, savedArgs, coordVars, readVars, calls, readState >>

\* String(arg) / JSON.stringify(arg) of a saved argument (InputModal.tsx:383-388)
NullText == << "n", "u", "l", "l" >>
StringOf(arg) ==
    IF arg = Null THEN NullText
    ELSE IF IsTupleValue(arg) THEN << "{tuple}" >>
    ELSE IF IsReadDirective(arg) THEN DirectiveJson(arg)
    ELSE IF IsArrayValue(arg) THEN JsonStringify(arg)
    ELSE arg

\* InputModal.tsx:380-393: the form starts from the saved args when there is
\* one for each input, from empty strings otherwise
InitialArgValues0(c) ==
    LET inputs == selectedFunction(c).inputs
    IN IF Len(c.args) = Len(inputs)
       THEN [i \in 1..Len(inputs) |-> StringOf(c.args[i])]
       ELSE [i \in 1..Len(inputs) |-> << >>]

\* InputModal.tsx:407-437: one element of the earlier processArgs; the value
\* is tested for emptiness and converted as typed, without trimming
processArg0(input, value) ==
    IF value = Null \/ value = << >>
    THEN Thrown("MissingArgument", input.name)
    ELSE IF IsArrayType(input.type) THEN convertArray0(input, value)
    ELSE IF IsIntegerType(input.type)
    THEN IF ~ParseBigInt(value).ok
         THEN Thrown("InvalidArgument", input.name)
         ELSE Converted(ToDecimalString(ParseBigInt(value).n))
    ELSE Converted(value)

\* InputModal.tsx:401-443 processArgs of the first modal
processArgs0(c, values) ==
    IF selectedFunction(c) = NoItem
    THEN [ok |-> FALSE, err |-> "NoFunction", param |-> "", args |-> << >>]
    ELSE ArgsOrError([i \in 1..Len(selectedFunction(c).inputs) |->
                         processArg0(selectedFunction(c).inputs[i], ValueAt(values, i))])

\* InputModal.tsx:380-393: the effect that fills the form when the modal opens
LegacyModalOpen ==
    /\ pc = "modalOpening" /\ impl = "legacy"
    /\ argValues' = InitialArgValues0(ModalConfig)
    /\ pc' = "modal"
    /\ UNCHANGED << envVars, op, callArgs, isInputModalOpen, currentConfigForInput, savedArgs,
                    coordVars, readVars, calls, notifications, readState >>

\* InputModal.tsx:395-399 handleArgChange
LegacyModalEdit ==
    /\ pc = "modal" /\ impl = "legacy"
    /\ \E index \in 1..Len(argValues), v \in TypedValues :
          /\ argValues[index] # v
          /\ argValues' = [argValues EXCEPT ![index] = v]
    /\ UNCHANGED << envVars, pc, op, callArgs, isInputModalOpen, currentConfigForInput,
                    savedArgs, coordVars, readVars, calls, notifications, readState >>

\* InputModal.tsx:445-450 handleSubmit with part_002:251-257 handleInputModalSubmit
LegacyModalSend ==
    /\ pc = "modal" /\ impl = "legacy"
    /\ LET result == processArgs0(ModalConfig, argValues)
       IN IF result.ok
          THEN /\ op' = "tx" /\ callArgs' = result.args /\ pc' = "executeTransaction"
               /\ isInputModalOpen' = FALSE
               /\ currentConfigForInput' = << >>
               /\ UNCHANGED notifications
          ELSE /\ Len(notifications) < MaxNotes
               /\ notifications' = Append(notifications, ArgErrorNote(result))
               /\ UNCHANGED << pc, op, callArgs, isInputModalOpen, currentConfigForInput >>
    /\ UNCHANGED << envVars, argValues, savedArgs, coordVars, readVars, calls, readState >>

\* InputModal.tsx:452-458 handleSave with part_002:259-272 handleInputModalSave;
\* the modal's config changes, so its effect fills the form again
LegacyModalSave ==
    /\ pc = "modal" /\ impl = "legacy"
    /\ Len(notifications) < MaxNotes
    /\ LET result == processArgs0(ModalConfig, argValues)
       IN IF result.ok
          THEN /\ savedArgs' = result.args
               /\ currentConfigForInput' = << [ModalConfig EXCEPT !.args = result.args] >>
               /\ argValues' = [i \in 1..Len(result.args) |-> StringOf(result.args[i])]
               /\ notifications' = Append(notifications, Note("success", "InputsSaved", ""))
          ELSE /\ notifications' = Append(notifications, ArgErrorNote(result))
               /\ UNCHANGED << savedArgs, currentConfigForInput, argValues >>
    /\ UNCHANGED << envVars, pc, op, callArgs, isInputModalOpen, coordVars, readVars, calls,
                    readState >>

\* part_002:299-302 onClose
LegacyModalCancel ==
    /\ pc = "modal" /\ impl = "legacy"
    /\ isInputModalOpen' = FALSE
    /\ currentConfigForInput' = << >>
    /\ pc' = "done"
    /\ UNCHANGED << envVars, op, callArgs, argValues, savedArgs, coordVars, readVars, calls,
                    notifications, readState >>

\* part_002:109-111: (functionAbi.inputs?.length || 0) !== args.length
ArgumentCountMismatch(f, args) == Len(f.inputs) # Len(args)

\* what executeTransaction does with its transaction data: part_002:88-123
\* "Ambiguous", "FunctionNotFound", "ArgumentCountMismatch": thrown before
\* encoding; "NoTxData": neither abi nor data; "" when the data can be built
LegacyEncodeError(c, args) ==
    IF c.abi # NoAbi
    THEN IF InferFunctionName(c) = NoName THEN "Ambiguous"
         ELSE LET functionAbi == FindFunction(AbiItems(c.abi), InferFunctionName(c))
              IN IF functionAbi = NoItem THEN "FunctionNotFound"
                 ELSE IF ArgumentCountMismatch(functionAbi, args) THEN "ArgumentCountMismatch"
                 ELSE ""
    ELSE IF c.data THEN ""
    ELSE "NoTxData"

\* part_002:79-179 executeTransaction: the data is built first; then the
\* wallet is asked to switch when the active chain is not the config's, and
\* the transaction is sent only when it already is
LegacyExecute ==
    /\ pc = "executeTransaction" /\ impl = "legacy"
    /\ IF ~isConnected
       THEN /\ notifications' = Append(notifications, Note("info", "ConnectWallet", ""))
            /\ pc' = "done"
            /\ UNCHANGED << calls, requests >>
       ELSE IF LegacyEncodeError(config, callArgs) = "NoTxData"
       THEN /\ notifications' = Append(notifications, Note("error", "NoTxData", ""))
            /\ pc' = "done"
            /\ UNCHANGED << calls, requests >>
       ELSE IF LegacyEncodeError(config, callArgs) # ""
       THEN /\ notifications' = Append(notifications,
                   Note("error", "EncodeError", LegacyEncodeError(config, callArgs)))
            /\ pc' = "done"
            /\ UNCHANGED << calls, requests >>
       ELSE \E encoded \in IF config.abi = NoAbi THEN {TRUE}
                            ELSE IF EncodeCanSucceed(config, InferFunctionName(config), callArgs)
                            THEN BOOLEAN ELSE {FALSE} :
               IF ~encoded
               THEN /\ notifications' =
                          Append(notifications, Note("error", "EncodeError", "Encoding"))
                    /\ pc' = "done"
                    /\ UNCHANGED << calls, requests >>
               ELSE IF chain # config.id
               THEN IF ~walletClient
                    THEN /\ notifications' =
                               Append(notifications, Note("error", "NoConnector", ""))
                         /\ pc' = "done"
                         /\ UNCHANGED << calls, requests >>
                    ELSE /\ requests' = Append(requests, "switch")
                         /\ pc' = "awaitLegacySwitch"
                         /\ UNCHANGED << calls, notifications >>
               ELSE /\ IssueCall(Call("sendTransaction",
                                      IF config.abi = NoAbi THEN NoName
                                      ELSE InferFunctionName(config),
                                      IF config.abi = NoAbi THEN << >> ELSE callArgs, FALSE),
                                 "awaitSubmit")
                    /\ UNCHANGED requests
    /\ UNCHANGED << envVars, op, callArgs, modalVars, responses, coord, chain, readVars,
                    readState >>

\* part_002:148-166: the wallet answers the switch; nothing is sent in either
\* case, the user is told to click again.  There is no coordinator here: the
\* answer shows in the notification only.
LegacySwitchResponse ==
    /\ pc = "awaitLegacySwitch"
    /\ \E code \in {Resolved, UnrecognizedChainCode, OtherErrorCode} :
          /\ chain' = IF code = Resolved THEN config.id ELSE chain
          /\ notifications' = Append(notifications,
                IF code = Resolved THEN Note("success", "NetworkSwitched", "")
                ELSE IF code = UnrecognizedChainCode THEN Note("error", "ChainNotFound", "")
                ELSE Note("error", "SwitchFailed", ""))
          /\ pc' = "done"
    /\ UNCHANGED << envVars, op, callArgs, modalVars, requests, responses, coord, readVars,
                    calls, readState >>

\* ---------------------------------------------------------- specification
\* ------------------------------------------------------- add-button modal
\* The JSON pasted into the add-button modal describes the button's config.
\* The draft records what the config of the model leaves open: whether the
\* data key is absent or holds the empty string when there is no raw data,
\* and whether the args key is written when there are no args.
AddButtonVersions == {"AddButtonModal", "part_004"}
AddButtonDrafts(c) ==
    [ data : IF c.data THEN {"string"} ELSE {"absent", "empty"},
      args : IF c.args = << >> THEN BOOLEAN ELSE {TRUE} ]

\* 'data' in config && typeof config.data === 'string'
hasRawData(draft) == draft.data \in {"string", "empty"}

\* mutant: the check of the execution basis is left out
ValidateDraft_NoBasisCheck(version, c, draft) ==
    [ok |-> TRUE, err |-> ""]

\* AddButtonModal.tsx:125-133 and part_004:89-119 handleSave after the
\* required keys were found: ok, or the error thrown
ValidateDraft(version, c, draft) ==
    IF version = "AddButtonModal"
    THEN IF hasRawData(draft) \/ (c.abi # NoAbi /\ c.functionName # NoName /\ draft.args)
         THEN [ok |-> TRUE, err |-> ""]
         ELSE [ok |-> FALSE, err |-> "NoBasis"]
    ELSE IF ~hasRawData(draft) /\ c.abi = NoAbi
    THEN [ok |-> FALSE, err |-> "NoBasis"]
    ELSE IF c.abi # NoAbi /\ c.address # AddrEmpty /\ Len(FunctionsInAbi(c.abi)) = 0
    THEN [ok |-> FALSE, err |-> "NoFunctions"]
    ELSE IF /\ c.abi # NoAbi /\ c.address # AddrEmpty
            /\ Len(FunctionsInAbi(c.abi)) > 1 /\ c.functionName = NoName
    THEN [ok |-> FALSE, err |-> "AmbiguousFunction"]
    ELSE [ok |-> TRUE, err |-> ""]

\* AddButtonModal.tsx:84-137 / part_004:60-124 handleSave on the JSON of the
\* button: onSave and onClose when the config passes, a notification when not
AddButtonSave ==
    /\ pc = "idle" /\ impl \in {"hook", "view"}
    /\ \E version \in AddButtonVersions, draft \in AddButtonDrafts(config) :
          LET r == ValidateDraft(version, config, draft)
          IN /\ app' = [modal |-> "addButton", version |-> version, draft |-> draft,
                        saved |-> r.ok]
             /\ pc' = IF r.ok THEN "buttonSaved" ELSE "buttonRefused"
             /\ notifications' =
                    IF r.ok THEN notifications
                    ELSE Append(notifications, Note("error", "InvalidConfiguration", r.err))
    /\ UNCHANGED << impl, config, isConnected, walletClient, publicClient, op, callArgs,
                    modalVars, coordVars, readVars, calls, readState >>

Next ==
    \/ AddButtonSave
    \/ HookClick
    \/ ViewClick
    \/ ModalEffects
    \/ ModalEdit
    \/ ModalSend
    \/ ModalSave
    \/ ModalCancel
    \/ ExecuteReadEntry
    \/ HandleTransactionEntry
    \/ HookCoordStart
    \/ ViewCoordStart
    \/ SwitchResponse
    \/ AddChainResponse
    \/ SwitchRetryResponse
    \/ HookDispatch
    \/ ResolveReadCalls
    \/ EmbeddedReadResponse
    \/ HookFinal
    \/ ViewDispatchRead
    \/ ViewDispatchTx
    \/ ReadResponse
    \/ SubmitResponse
    \/ ReceiptResponse
    \/ LegacyClick
    \/ LegacyModalOpen
    \/ LegacyModalEdit
    \/ LegacyModalSend
    \/ LegacyModalSave
    \/ LegacyModalCancel
    \/ LegacyExecute
    \/ LegacySwitchResponse
    \/ Hook0CoordStart
    \/ Hook0ResolveReadCalls
    \/ Hook0SwitchChainResponse

Spec == Init /\ [][Next]_vars

\* ------------------------------------------- two invocations in flight
\* The same write button of the hook clicked twice; each click is one run of
\* handleButtonClick and handleTransaction.  pc, readIdx and resolvedArgs
\* hold one entry per invocation, calls and notifications record which
\* invocation made them.  The wallet is on the button's chain.
Invocations == {1, 2}

TwoArgLists == {<< >>, << ReadDir, Str1 >>, << Str1, ReadDir2 >>}
TwoConfigs ==
    {c \in [ id : {1}, chainName : {TRUE}, rpcUrlsLen : {1}, nativeCurrency : {TRUE},
             address : {AddrValid}, abi : {"erc20", "ping", NoAbi},
             functionName : {"transfer", "ping", NoName}, args : TwoArgLists,
             data : BOOLEAN, readOnly : {FALSE}, chained : {FALSE} ] :
        \/ c.abi = "erc20" /\ c.functionName = "transfer" /\ Len(c.args) = 2 /\ ~c.data
        \/ c.abi = "ping" /\ c.functionName = "ping" /\ c.args = << >> /\ ~c.data
        \/ c.abi = NoAbi /\ c.functionName = NoName /\ c.args = << >>}

TwoNote(i, type, kind, cause) == [inv |-> i, type |-> type, kind |-> kind, cause |-> cause]
TwoCall(i, prim, functionName, args, embedded) ==
    [inv |-> i, prim |-> prim, functionName |-> functionName, args |-> args,
     embedded |-> embedded]

TwoInit ==
    /\ impl = "hook"
    /\ config \in TwoConfigs
    /\ chain = config.id
    /\ isConnected \in BOOLEAN
    /\ walletClient \in BOOLEAN
    /\ publicClient \in BOOLEAN
    /\ pc = << "idle", "idle" >>
    /\ op = "tx"
    /\ callArgs = config.args
    /\ isInputModalOpen = FALSE
    /\ currentConfigForInput = << >>
    /\ argValues = << >>
    /\ savedArgs = config.args
    /\ requests = << >>
    /\ responses = << >>
    /\ coord = "none"
    /\ readIdx = << 0, 0 >>
    /\ resolvedArgs = << << >>, << >> >>
    /\ calls = << >>
    /\ notifications = << >>
    /\ readState = "none"
    /\ app = NoApp

twoFixed == << envVars, chain, op, callArgs, modalVars, requests, responses, coord, readState >>

InFlight(i) == pc[i] \notin {"idle", "done"}

\* mutant: a click is refused while another invocation is in flight
ClickGuard_OneInFlight(i) == isConnected /\ \A j \in Invocations \ {i} : ~InFlight(j)

\* MainView.tsx:499-502: the only state the click handler tests before it
\* starts is the wallet connection
ClickGuard(i) == isConnected

TwoEnd(i, note) ==
    /\ notifications' = Append(notifications, note)
    /\ pc' = [pc EXCEPT ![i] = "done"]

\* useChainsawActions.ts:213-217: the catch block of invocation i
TwoCaught(i, cause) == TwoEnd(i, TwoNote(i, "error", "TxFailed", cause))

TwoIssue(i, call, await) ==
    /\ calls' = Append(calls, call)
    /\ pc' = [pc EXCEPT ![i] = await]
    /\ UNCHANGED notifications

\* MainView.tsx:498-544 handleButtonClick, for a write button with nothing
\* left to fill in
TwoClick(i) ==
    /\ pc[i] = "idle"
    /\ ~hasEmptyArgs(getExecutionConfig(config))
    /\ IF ~ClickGuard(i)
       THEN TwoEnd(i, TwoNote(i, "info", "ConnectWallet", ""))
       ELSE /\ pc' = [pc EXCEPT ![i] = "handleTransaction"]
            /\ UNCHANGED notifications
    /\ UNCHANGED << twoFixed, readVars, calls >>

\* useChainsawActions.ts:142-156 and 186-200: the wallet guard, the
\* coordinator finding the wallet on the target chain, and the choice between
\* resolving args for the abi and sending raw data
TwoHandleTransaction(i) ==
    /\ pc[i] = "handleTransaction"
    /\ IF ~walletClient
       THEN /\ TwoEnd(i, TwoNote(i, "info", "ConnectWallet", ""))
            /\ UNCHANGED << readVars, calls >>
       ELSE IF config.abi # NoAbi
       THEN /\ pc' = [pc EXCEPT ![i] = "reads"]
            /\ readIdx' = [readIdx EXCEPT ![i] = 1]
            /\ resolvedArgs' = [resolvedArgs EXCEPT ![i] = << >>]
            /\ UNCHANGED << calls, notifications >>
       ELSE /\ UNCHANGED readVars
            /\ IF config.data
               THEN TwoIssue(i, TwoCall(i, "sendTransaction", NoName, << >>, FALSE), "awaitSubmit")
               ELSE TwoCaught(i, "InvalidConfig") /\ UNCHANGED calls
    /\ UNCHANGED twoFixed

\* useChainsawActions.ts:76-102 resolveReadCalls of invocation i
TwoResolveReadCalls(i) ==
    /\ pc[i] = "reads"
    /\ LET j == NextReadDirective(callArgs, readIdx[i])
       IN IF j = 0
          THEN /\ resolvedArgs' = [resolvedArgs EXCEPT
                                      ![i] = @ \o SubSeq(callArgs, readIdx[i], Len(callArgs))]
               /\ readIdx' = [readIdx EXCEPT ![i] = Len(callArgs) + 1]
               /\ pc' = [pc EXCEPT ![i] = "final"]
               /\ UNCHANGED << calls, notifications >>
          ELSE /\ resolvedArgs' = [resolvedArgs EXCEPT
                                      ![i] = @ \o SubSeq(callArgs, readIdx[i], j - 1)]
               /\ readIdx' = [readIdx EXCEPT ![i] = j]
               /\ IF ~publicClient
                  THEN TwoCaught(i, "NoPublicClient") /\ UNCHANGED calls
                  ELSE TwoIssue(i, TwoCall(i, "readContract", ReadFunctionName(callArgs[j]),
                                           << >>, TRUE), "awaitEmbedded")
    /\ UNCHANGED twoFixed

\* the chain client answers the embedded read of invocation i
TwoEmbeddedReadResponse(i) ==
    /\ pc[i] = "awaitEmbedded"
    /\ \E ok \in BOOLEAN :
          IF ok
          THEN /\ resolvedArgs' = [resolvedArgs EXCEPT
                                      ![i] = Append(@, ReadResult(callArgs[readIdx[i]]))]
               /\ readIdx' = [readIdx EXCEPT ![i] = @ + 1]
               /\ pc' = [pc EXCEPT ![i] = "reads"]
               /\ UNCHANGED notifications
          ELSE /\ TwoCaught(i, "EmbeddedReadFailed")
               /\ UNCHANGED readVars
    /\ UNCHANGED << twoFixed, calls >>

\* useChainsawActions.ts:170-185: writeContract with the args invocation i resolved
TwoFinal(i) ==
    /\ pc[i] = "final"
    /\ TwoIssue(i, TwoCall(i, "writeContract", config.functionName, resolvedArgs[i], FALSE),
                "awaitSubmit")
    /\ UNCHANGED << twoFixed, readVars >>

\* useChainsawActions.ts:202-205, 213-217: the wallet answers invocation i
TwoSubmitResponse(i) ==
    /\ pc[i] = "awaitSubmit"
    /\ \E outcome \in {"hash", "rejected", "failed"} :
          IF outcome = "hash"
          THEN /\ notifications' = Append(notifications, TwoNote(i, "success", "TxSent", ""))
               /\ pc' = [pc EXCEPT ![i] = IF publicClient THEN "awaitReceipt" ELSE "done"]
          ELSE TwoCaught(i, outcome)
    /\ UNCHANGED << twoFixed, readVars, calls >>

\* useChainsawActions.ts:204-217: the receipt of invocation i
TwoReceiptResponse(i) ==
    /\ pc[i] = "awaitReceipt"
    /\ \E outcome \in {"success", "reverted", "threw"} :
          IF outcome = "success"
          THEN TwoEnd(i, TwoNote(i, "success", "TxConfirmed", ""))
          ELSE IF outcome = "reverted"
          THEN TwoEnd(i, TwoNote(i, "error", "TxReverted", ""))
          ELSE TwoCaught(i, "Receipt")
    /\ UNCHANGED << twoFixed, readVars, calls >>

TwoNext ==
    \E i \in Invocations :
       \/ TwoClick(i)
       \/ TwoHandleTransaction(i)
       \/ TwoResolveReadCalls(i)
       \/ TwoEmbeddedReadResponse(i)
       \/ TwoFinal(i)
       \/ TwoSubmitResponse(i)
       \/ TwoReceiptResponse(i)

TwoSpec == TwoInit /\ [][TwoNext]_vars

\* ------------------------------------------------- integer coercion alone
\* The three places that coerce a typed string against an integer parameter,
\* each applied to every short string over signs, digits, blanks and a letter.
CoerceAlphabet == {"0", "1", "-", " ", "x"}

RECURSIVE CoerceStringsOfLen(_)
CoerceStringsOfLen(n) ==
    IF n = 0 THEN {<< >>}
    ELSE {<< c >> \o s : c \in CoerceAlphabet, s \in CoerceStringsOfLen(n - 1)}

CoerceInputs == UNION {CoerceStringsOfLen(n) : n \in 0..CoerceMaxLen}

\* InputModal.tsx:58-111 (the modal), InputModal.tsx:401-443 (the modal's
\* earlier processArgs), AbiFunctionEncoder handleGenerate (part_001:60-104)
CoerceSites == {"modal", "modal0", "encoder"}

IntegerParam == Param("amount", "uint256")

\* part_001:67-94: one element of handleGenerate, the same steps
generateArg(input, value) ==
    IF value = Null \/ value = << >>
    THEN Thrown("MissingArgument", input.name)
    ELSE IF IsIntegerType(input.type)
    THEN IF ~ParseBigInt(value).ok
         THEN Thrown("InvalidArgument", input.name)
         ELSE Converted(ToDecimalString(ParseBigInt(value).n))
    ELSE Converted(value)

coerceAt(site, input, value) ==
    IF site = "modal" THEN convertValue(input, value)
    ELSE IF site = "modal0" THEN processArg0(input, value)
    ELSE generateArg(input, value)

CoerceConfig ==
    [ id |-> 1, chainName |-> TRUE, rpcUrlsLen |-> 1, nativeCurrency |-> TRUE,
      address |-> AddrValid, abi |-> "erc20", functionName |-> "transfer",
      args |-> << >>, data |-> FALSE, readOnly |-> FALSE, chained |-> FALSE ]

CoerceInit ==
    /\ impl \in CoerceSites
    /\ config = CoerceConfig
    /\ argValues \in {<< s >> : s \in CoerceInputs}
    /\ pc = "coerce"
    /\ chain = 1 /\ isConnected = TRUE /\ walletClient = TRUE /\ publicClient = TRUE
    /\ op = "none" /\ callArgs = << >>
    /\ isInputModalOpen = FALSE /\ currentConfigForInput = << >>
    /\ savedArgs = << >> /\ requests = << >> /\ responses = << >>
    /\ coord = "none" /\ readIdx = 0 /\ resolvedArgs = << >>
    /\ calls = << >> /\ notifications = << >> /\ readState = "none"
    /\ app = NoApp

coerceVars == << envVars, chain, op, isInputModalOpen, currentConfigForInput, argValues,
                 savedArgs, requests, responses, coord, readIdx, calls, readState >>

\* the typed string is converted; a throw is reported
Coerce ==
    /\ pc = "coerce"
    /\ LET r == coerceAt(impl, IntegerParam, argValues[1])
       IN IF r.ok
          THEN /\ callArgs' = << r.value >>
               /\ pc' = "coerced"
               /\ UNCHANGED notifications
          ELSE /\ notifications' = Append(notifications, NoteP("error", "ArgError", r.err, r.param))
               /\ pc' = "rejected"
               /\ UNCHANGED callArgs
    /\ UNCHANGED << coerceVars, resolvedArgs >>

\* the converted value is converted again (a saved value is processed anew
\* the next time the button is used)
CoerceAgain ==
    /\ pc = "coerced"
    /\ LET r == coerceAt(impl, IntegerParam, callArgs[1])
       IN IF r.ok
          THEN /\ resolvedArgs' = << r.value >>
               /\ pc' = "recoerced"
               /\ UNCHANGED notifications
          ELSE /\ notifications' = Append(notifications, NoteP("error", "ArgError", r.err, r.param))
               /\ pc' = "rejected"
               /\ UNCHANGED resolvedArgs
    /\ UNCHANGED << coerceVars, callArgs >>

CoerceNext == Coerce \/ CoerceAgain

CoerceSpec == CoerceInit /\ [][CoerceNext]_vars

\* --------------------------------------------------- array coercion alone
\* The input modal and its earlier version, opened on a function with one
\* array parameter; the saved argument is absent, a text or an array.
ArrayAlphabet == {"[", "]", ",", "1", "\""}

ArraySavedArgs ==
    { << >>,
      << << >> >>,
      << << "[", "1", "]" >> >>,
      << << "array" >> >>,
      << << "array", << "num", 1 >>, << "num", 2 >> >> >>,
      << << "array", << "1" >> >> >>,
      << << "array", << "[", "1", "]" >> >> >> }

ArraySites == {"modal", "modal0"}

ArrayParam == Param("ids", "uint256[]")

ArrayInit ==
    /\ impl \in ArraySites
    /\ config \in {[CoerceConfig EXCEPT !.args = a] : a \in ArraySavedArgs}
    /\ argValues = << >>
    /\ pc = "open"
    /\ chain = 1 /\ isConnected = TRUE /\ walletClient = TRUE /\ publicClient = TRUE
    /\ op = "none" /\ callArgs = << >>
    /\ isInputModalOpen = TRUE /\ currentConfigForInput = << >>
    /\ savedArgs = << >> /\ requests = << >> /\ responses = << >>
    /\ coord = "none" /\ readIdx = 0 /\ resolvedArgs = << >>
    /\ calls = << >> /\ notifications = << >> /\ readState = "none"
    /\ app = NoApp

\* the value is converted: the result is handed to onSubmit, a throw is
\* reported; resolvedArgs keeps the value that was converted
ArrayConvert(value) ==
    LET r == coerceAt(impl, ArrayParam, value)
    IN /\ resolvedArgs' = << value >>
       /\ IF r.ok
          THEN /\ callArgs' = << r.value >>
               /\ pc' = "submitted"
               /\ UNCHANGED notifications
          ELSE /\ notifications' = Append(notifications, NoteP("error", "ArgError", r.err, r.param))
               /\ pc' = "rejected"
               /\ UNCHANGED callArgs

\* InputModal.tsx:113-156 and 224-240 (380-393 in the earlier modal): the
\* effects that run when the modal opens.  The form is filled from the saved
\* args; the modal then submits config.args itself when no input needs
\* entry.
ArrayOpen ==
    /\ pc = "open"
    /\ argValues' = IF Len(config.args) = 1
                    THEN << IF impl = "modal" THEN formatSavedArg(ArrayParam, config.args[1])
                            ELSE StringOf(config.args[1]) >>
                    ELSE << << >> >>
    /\ IF impl = "modal" /\ ~isValueEmpty(ValueAt(config.args, 1))
       THEN ArrayConvert(config.args[1])
       ELSE /\ pc' = "form"
            /\ UNCHANGED << callArgs, resolvedArgs, notifications >>
    /\ UNCHANGED << envVars, chain, op, isInputModalOpen, currentConfigForInput,
                    savedArgs, requests, responses, coord, readIdx, calls, readState >>

\* InputModal.tsx:158-160, 395-399 handleArgChange: one more character typed
ArrayEdit ==
    /\ pc = "form"
    /\ Len(argValues[1]) < ArrayMaxLen
    /\ \E c \in ArrayAlphabet : argValues' = << Append(argValues[1], c) >>
    /\ UNCHANGED << envVars, chain, op, isInputModalOpen, currentConfigForInput,
                    savedArgs, requests, responses, coord, readIdx, calls, readState,
                    pc, callArgs, resolvedArgs, notifications >>

\* InputModal.tsx:162-167, 445-450 handleSubmit
ArraySubmit ==
    /\ pc = "form"
    /\ ArrayConvert(argValues[1])
    /\ UNCHANGED << envVars, chain, op, isInputModalOpen, currentConfigForInput, argValues,
                    savedArgs, requests, responses, coord, readIdx, calls, readState >>

ArrayNext == ArrayOpen \/ ArrayEdit \/ ArraySubmit

ArraySpec == ArrayInit /\ [][ArrayNext]_vars

\* ------------------------------------------------- settings and profiles
\* The App component: the settings (the set of button keys; what a button
\* does plays no part here), the visibility map of each profile and the
\* active profile.  localStorage holds what an earlier session left, or text
\* that does not parse.
Keys == 1..MaxKeys
PROFILE_NAMES == 1..MaxProfiles
\* the keys of presets/default.json
DefaultSettings == {1}
\* an item of localStorage is absent, text that does not parse, or a value
Corrupt == "corrupt"
Absent == "absent"
Value == "value"
NoProfile == 0

pipelineVars == << impl, config, chain, isConnected, walletClient, publicClient, pc, op,
                   callArgs, isInputModalOpen, currentConfigForInput, argValues, savedArgs,
                   requests, responses, coord, readIdx, resolvedArgs, calls,
                   notifications, readState >>

\* visibility maps: for each profile a map from keys to booleans
VisibilityMaps(profiles, keys) == [profiles -> [keys -> BOOLEAN]]

\* what localStorage can hold
StoredStates ==
    UNION {[settingsItem : {Value}, settings : {ks},
            activeProfile : PROFILE_NAMES \cup {NoProfile},
            visibilityItem : {Value}, profileVisibility : VisibilityMaps(PROFILE_NAMES, ks)]
           \cup
           [settingsItem : {Value}, settings : {ks},
            activeProfile : PROFILE_NAMES \cup {NoProfile},
            visibilityItem : {Absent, Corrupt}, profileVisibility : {<< >>}]
              : ks \in SUBSET Keys}
    \cup [settingsItem : {Corrupt}, settings : {{}}, activeProfile : {NoProfile},
          visibilityItem : {Absent}, profileVisibility : {<< >>}]

ConsumedStore ==
    [settingsItem |-> Absent, settings |-> {}, activeProfile |-> NoProfile,
     visibilityItem |-> Absent, profileVisibility |-> << >>]

\* App.tsx:91-97: the state of the first render
AppInit ==
    /\ app \in [phase : {"mounted"}, stored : StoredStates, settings : {{}},
                 profileVisibility : {<< >>}, activeProfile : {1},
                 notification : {"none"}, last : {"none"}]
    /\ impl = "app" /\ config = CoerceConfig /\ pc = "idle"
    /\ chain = 1 /\ isConnected = TRUE /\ walletClient = TRUE /\ publicClient = TRUE
    /\ op = "none" /\ callArgs = << >> /\ argValues = << >>
    /\ isInputModalOpen = FALSE /\ currentConfigForInput = << >>
    /\ savedArgs = << >> /\ requests = << >> /\ responses = << >>
    /\ coord = "none" /\ readIdx = 0 /\ resolvedArgs = << >>
    /\ calls = << >> /\ notifications = << >> /\ readState = "none"

\* existingProfile[key] !== false, with currentProfiles[profileName] || {}
KeptVisible(currentProfiles, profileName, key) ==
    ~(/\ profileName \in DOMAIN currentProfiles
      /\ key \in DOMAIN currentProfiles[profileName]
      /\ currentProfiles[profileName][key] = FALSE)

\* mutant: a new button is made visible in every profile
NewProfiles_VisibleEverywhere(currentProfiles, newSettings, addedKeys, active) ==
    [profileName \in PROFILE_NAMES |->
        [key \in newSettings |->
            IF key \in addedKeys THEN TRUE
            ELSE KeptVisible(currentProfiles, profileName, key)]]

\* App.tsx:119-139: the updater handed to setProfileVisibility
NewProfiles(currentProfiles, newSettings, addedKeys, active) ==
    [profileName \in PROFILE_NAMES |->
        [key \in newSettings |->
            IF key \in addedKeys THEN profileName = active
            ELSE KeptVisible(currentProfiles, profileName, key)]]

\* App.tsx:111-141 handleSettingsChange as created by the render that saw
\* settings and activeProfile; a is the App state it is applied to
handleSettingsChange(a, settings, activeProfile, newSettings) ==
    [a EXCEPT !.settings = newSettings,
              !.profileVisibility =
                  NewProfiles(a.profileVisibility, newSettings, newSettings \ settings,
                              activeProfile)]

\* App.tsx:190-231 loadState: settings, active profile and visibility maps
\* are read in this order; text that does not parse throws, after the
\* values read before it were set
LoadState ==
    /\ app.phase = "mounted"
    /\ LET st == app.stored
           useDefault == st.settingsItem = Value /\ st.settings = {}
       IN \E fetched \in BOOLEAN :
            LET loadedSettings == IF useDefault THEN DefaultSettings ELSE st.settings
                failsAtSettings == st.settingsItem = Corrupt \/ (useDefault /\ ~fetched)
                failsAtVisibility == st.visibilityItem = Corrupt
                a1 == IF failsAtSettings THEN app
                      ELSE [app EXCEPT !.settings = loadedSettings,
                                       !.activeProfile =
                                           IF st.activeProfile = NoProfile THEN 1
                                           ELSE st.activeProfile]
                a2 == IF failsAtSettings \/ failsAtVisibility THEN a1
                      ELSE [a1 EXCEPT !.profileVisibility =
                              IF st.visibilityItem = Absent
                              THEN [name \in PROFILE_NAMES |->
                                      [key \in loadedSettings |-> name = 1]]
                              ELSE st.profileVisibility]
            IN /\ (useDefault \/ fetched)
               /\ app' = [a2 EXCEPT !.stored = ConsumedStore, !.last = "load",
                                    !.phase = IF failsAtSettings \/ failsAtVisibility
                                              THEN "recovering" ELSE "ready"]
    /\ UNCHANGED pipelineVars

\* App.tsx:170-187 fetchAndSetDefaultSettings(true), called from the catch
\* block of loadState: the handleSettingsChange it calls is the one of the
\* first render, which saw empty settings and the first profile active
RecoverDefault ==
    /\ app.phase = "recovering"
    /\ \E fetched \in BOOLEAN :
          app' = IF fetched
                 THEN [handleSettingsChange(app, {}, 1, DefaultSettings)
                          EXCEPT !.phase = "ready", !.last = "recover"]
                 ELSE [app EXCEPT !.phase = "ready", !.last = "fetchFailed",
                                  !.notification = "FetchFailed"]
    /\ UNCHANGED pipelineVars

\* MainView.tsx:492-496 handleSaveButton: a button is added or replaced
AddButton ==
    /\ app.phase = "ready"
    /\ \E key \in Keys :
          app' = [handleSettingsChange(app, app.settings, app.activeProfile,
                                       app.settings \cup {key})
                     EXCEPT !.last = "change", !.notification = "ButtonSaved"]
    /\ UNCHANGED pipelineVars

\* SettingsView.tsx:178-190 handleSaveConfiguration: the JSON of the text
\* area, edited or filled from a preset, becomes the settings
SaveConfiguration ==
    /\ app.phase = "ready"
    /\ \E newSettings \in SUBSET Keys :
          app' = [handleSettingsChange(app, app.settings, app.activeProfile, newSettings)
                     EXCEPT !.last = "change", !.notification = "SettingsSaved"]
    /\ UNCHANGED pipelineVars

\* SettingsView.tsx:192-201 with App.tsx:143-149 handleSaveProfile: the
\* draft is the active profile's map with the boxes of the settings' keys
\* ticked or not
SaveProfile ==
    /\ app.phase = "ready"
    /\ LET current == IF app.activeProfile \in DOMAIN app.profileVisibility
                      THEN app.profileVisibility[app.activeProfile] ELSE << >>
       IN \E toggled \in SUBSET app.settings :
          \E draft \in [DOMAIN current \cup toggled -> BOOLEAN] :
             /\ \A key \in DOMAIN current \ toggled : draft[key] = current[key]
             /\ app' = [app EXCEPT
                          !.profileVisibility =
                              [name \in DOMAIN app.profileVisibility \cup {app.activeProfile} |->
                                  IF name = app.activeProfile THEN draft
                                  ELSE app.profileVisibility[name]],
                          !.last = "profile", !.notification = "ProfileSaved"]
    /\ UNCHANGED pipelineVars

\* ProfileSelector: setActiveProfile
SelectProfile ==
    /\ app.phase = "ready"
    /\ \E name \in PROFILE_NAMES \ {app.activeProfile} :
          app' = [app EXCEPT !.activeProfile = name, !.last = "select"]
    /\ UNCHANGED pipelineVars

AppNext ==
    \/ LoadState
    \/ RecoverDefault
    \/ AddButton
    \/ SaveConfiguration
    \/ SaveProfile
    \/ SelectProfile

AppSpec == AppInit /\ [][AppNext]_vars

\* ---------------------------------------------------------- notifications
\* App.tsx:94, 99-102: the one notification on display and the timers that
\* showNotification starts.  Time advances in ticks; a timer that is due
\* fires before time moves on.  shown[id] records when notification id was
\* shown and for how long it was to stay; notification is the id on display,
\* NoNotification for null.
NoNotification == 0
Durations == 1..MaxDuration

NoteInit ==
    /\ app = [now |-> 0, notification |-> NoNotification, shown |-> << >>, timers |-> {},
              last |-> "none"]
    /\ impl = "app" /\ config = CoerceConfig /\ pc = "idle"
    /\ chain = 1 /\ isConnected = TRUE /\ walletClient = TRUE /\ publicClient = TRUE
    /\ op = "none" /\ callArgs = << >> /\ argValues = << >>
    /\ isInputModalOpen = FALSE /\ currentConfigForInput = << >>
    /\ savedArgs = << >> /\ requests = << >> /\ responses = << >>
    /\ coord = "none" /\ readIdx = 0 /\ resolvedArgs = << >>
    /\ calls = << >> /\ notifications = << >> /\ readState = "none"

\* mutant: showing a notification drops the timers of the earlier ones
StartTimer_ClearsEarlier(timers, id) == {id}

\* App.tsx:101: setTimeout(() => setNotification(null), duration); the
\* timers started before stay
StartTimer(timers, id) == timers \cup {id}

\* App.tsx:99-102 showNotification(message, type, duration)
ShowNotification ==
    /\ Len(app.shown) < MaxShown
    /\ \E duration \in Durations :
          LET id == Len(app.shown) + 1
          IN app' = [app EXCEPT !.notification = id,
                                !.shown = Append(@, [at |-> app.now, duration |-> duration]),
                                !.timers = StartTimer(@, id),
                                !.last = "show"]
    /\ UNCHANGED pipelineVars

\* the callback of a timer that is due: setNotification(null)
TimerFires ==
    /\ \E id \in app.timers :
          /\ app.shown[id].at + app.shown[id].duration <= app.now
          /\ app' = [app EXCEPT !.notification = NoNotification,
                                !.timers = @ \ {id},
                                !.last = "timer"]
    /\ UNCHANGED pipelineVars

\* Notification component, onClick={() => setNotification(null)}: the user
\* closes the notification on display
Dismiss ==
    /\ app.notification # NoNotification
    /\ app' = [app EXCEPT !.notification = NoNotification, !.last = "dismiss"]
    /\ UNCHANGED pipelineVars

\* time passes when no timer is due
Tick ==
    /\ app.now < MaxTime
    /\ \A id \in app.timers : app.shown[id].at + app.shown[id].duration > app.now
    /\ app' = [app EXCEPT !.now = @ + 1, !.last = "tick"]
    /\ UNCHANGED pipelineVars

NoteNext == ShowNotification \/ TimerFires \/ Dismiss \/ Tick

NoteSpec == NoteInit /\ [][NoteNext]_vars


\* ------------------------------------------------------------ properties

\* C1: when the first switch is refused as an unrecognized chain (4902) and
\* chainName, rpcUrls and nativeCurrency are all given, a finished
\* coordination has issued exactly switch, addChain, switch, whatever the
\* answer to the last switch.  (A registration the wallet refused ends the
\* sequence at addChain; that case is C8's, as is a registration that could
\* not be submitted for want of a wallet client.)
C1_SwitchAddSwitch ==
    LET finished == coord \in {"ok", "fail"}
        unrecognized == Len(responses) >= 1 /\ responses[1] = 4902
        hints == config.chainName /\ config.rpcUrlsLen > 0 /\ config.nativeCurrency
        refused == Len(responses) = 2 /\ requests = << "switch", "addChain" >>
                      /\ responses[2] # 0
    IN (finished /\ walletClient /\ unrecognized /\ hints /\ ~refused)
          => requests = << "switch", "addChain", "switch" >>

\* C2: a finished transaction invocation that called a submission primitive
\* has reported either the sent handle or a failure, not both and not neither.
C2_HandleXorError ==
    LET submitted == \E i \in 1..Len(calls) :
                        calls[i].prim \in {"sendTransaction", "writeContract", "deployContract"}
        sent == \E i \in 1..Len(notifications) : notifications[i].kind = "TxSent"
        failed == \E i \in 1..Len(notifications) :
                        notifications[i].kind \in {"TxFailed", "TxRejected"}
    IN (pc = "done" /\ op = "tx" /\ submitted) => (sent /\ ~failed) \/ (failed /\ ~sent)

\* C3: for a read-only config every primitive called is readContract; no
\* sendTransaction, writeContract or deployContract is ever called.
C3_ReadOnlyNeverBroadcasts ==
    config.readOnly => \A i \in 1..Len(calls) : calls[i].prim = "readContract"

\* C3 witness: a read-only button was clicked and its read was issued and answered
C3_Witness ==
    config.readOnly /\ pc = "done" /\ Len(calls) > 0 /\ calls[Len(calls)].prim = "readContract"

\* C4: when the named function of the config's abi has an argument slot
\* that is null, undefined or empty after trimming, no submission primitive
\* is called with that slot still empty.
C4_EmptySlotNeverSubmitted ==
    LET f == FindFunction(AbiItems(config.abi), config.functionName)
    IN (config.abi # NoAbi /\ config.address # AddrEmpty /\ f # NoItem)
          => \A i \in 1..Len(calls) :
                calls[i].prim \in {"sendTransaction", "writeContract", "deployContract"}
                   => \A k \in 1..Len(f.inputs) :
                         /\ k <= Len(calls[i].args)
                         /\ calls[i].args[k] # Null
                         /\ IsString(calls[i].args[k]) => Trim(calls[i].args[k]) # << >>

\* C5: a coordination that found the active chain equal to the target (no
\* request was issued and the chain is the target) has ended in success and
\* reported no error, whether or not the chain is known or described.
C5_AlreadyOnTarget ==
    (coord \in {"ok", "fail"} /\ requests = << >> /\ chain = config.id)
       => /\ coord = "ok"
          /\ \A i \in 1..Len(notifications) : notifications[i].type # "error"

\* C6: once the first switch request is refused with a code other than 4902,
\* coordination has failed, the only request issued is that switch, and no
\* read or submission primitive is called by the invocation.
C6_RejectedSwitchIsTerminal ==
    (Len(responses) >= 1 /\ responses[1] # 0 /\ responses[1] # 4902)
       => /\ coord = "fail"
          /\ pc = "done"
          /\ requests = << "switch" >>
          /\ calls = << >>
          /\ \E i \in 1..Len(notifications) : notifications[i].type = "error"

\* C6 witness: the wallet refused the first switch with another code
C6_Witness ==
    Len(responses) = 1 /\ responses[1] # 0 /\ responses[1] # 4902 /\ coord = "fail"


C8_RetryOnlyAfterRegistration ==
    /\ \A k \in 1..Len(responses) :
          (requests[k] = "addChain" /\ responses[k] # 0)
             => Len(requests) = k /\ coord = "fail"
    /\ \A k \in 2..Len(requests) :
          requests[k] = "switch"
             => requests[k - 1] = "addChain" /\ responses[k - 1] = 0

C10_SingleFunctionInferred ==
    LET fs == SelectSeq(AbiItems(config.abi), LAMBDA item : item.type = "function")
    IN (config.abi # NoAbi /\ config.functionName = NoName)
          => \A i \in 1..Len(calls) :
                (~calls[i].embedded /\ calls[i].prim # "deployContract")
                   => Len(fs) = 1 /\ calls[i].functionName = fs[1].name

\* C11: while the form of a function with a tuple parameter is on screen,
\* resolving the form's values fails whenever a component of the tuple is
\* null, undefined or empty after trimming: the result is null, the error is
\* the missing-argument error and it names the first such component.  A
\* result that is not null holds only tuples whose components are all filled,
\* and in the hook and the view, where every call of a tuple function
\* passes through the resolver, no call carries a tuple with an empty component.
C11_TupleAtomicity ==
    LET filled(v) == v # Null /\ (IsString(v) => Trim(v) # << >>)
        complete(t) == \A k \in 2..Len(t) : filled(t[k])
        f == selectedFunction(config)
    IN /\ (pc = "modal" /\ f # NoItem /\ Len(f.inputs) = 1 /\ f.inputs[1].type = "tuple"
              /\ Len(argValues) = 1)
          => LET t == argValues[1]
                 r == processArgs(ModalConfig, argValues)
                 names == f.inputs[1].components
                 empties == {k \in 1..Len(names) : ~filled(ComponentOf(t, k))}
             IN /\ (IsTupleValue(t) /\ empties # {})
                      => /\ ~r.ok
                         /\ r.args = << >>
                         /\ r.err = "MissingArgument"
                         /\ \E k \in empties :
                               /\ r.param = names[k].name
                               /\ \A j \in empties : k <= j
                /\ r.ok => \A i \in 1..Len(r.args) :
                               IsTupleValue(r.args[i]) => complete(r.args[i])
       /\ (impl \in {"hook", "view"} /\ f # NoItem)
          => \A i \in 1..Len(calls) : \A k \in 1..Len(calls[i].args) :
                IsTupleValue(calls[i].args[k]) => complete(calls[i].args[k])

\* C11 witness: Send was pressed on a tuple whose first component is filled
\* and whose second is empty, and the error named the second component
C11_Witness ==
    /\ pc = "modal"
    /\ Len(argValues) = 1 /\ IsTupleValue(argValues[1])
    /\ argValues[1][2] = Str1 /\ argValues[1][3] = << >>
    /\ notifications # << >>
    /\ notifications[Len(notifications)] = NoteP("error", "ArgError", "MissingArgument", "n")

\* C12: in the hook, an argument list with a directive whose function
\* declares two outputs never gets past resolution: every call the invocation
\* issues is an embedded read, and once the read of that directive has been
\* answered the invocation has failed.
C12_TwoOutputsRejected ==
    (impl = "hook" /\ \E k \in 1..Len(callArgs) : callArgs[k] = ReadDir2)
       => /\ \A i \in 1..Len(calls) : calls[i].embedded
          /\ \A k \in 1..Len(resolvedArgs) :
                callArgs[k] = ReadDir2 => resolvedArgs[k] # << "array", Str1, Str1 >>

\* C13: the hook (getExecutionConfig, then resolveReadCalls) dispatches no
\* read or submission with the "connected address" placeholder still in its
\* arguments.
C13_PlaceholderReplaced ==
    impl = "hook"
       => \A i \in 1..Len(calls) :
             ~calls[i].embedded
                => \A k \in 1..Len(calls[i].args) : calls[i].args[k] # Placeholder

\* C14: at each place that coerces a string against an integer parameter:
\* a decimal integer (digits, a minus sign allowed before them) is coerced to
\* its canonical decimal string, without leading zeros and with "-" only
\* before a value other than zero; coercing the result again gives the same
\* string; and a value is produced only from an integer literal (decimal, or
\* hexadecimal after 0x), white space around it allowed, every other string
\* being rejected with an error.
C14_IntegerCoercion ==
    LET s == argValues[1]
        t == Trim(s)
        digits(b) == b # << >> /\ \A i \in 1..Len(b) : b[i] \in {"0", "1"}
        decimal(b) == digits(b) \/ (b # << >> /\ b[1] = "-" /\ digits(Tail(b)))
        hex(b) == Len(b) > 2 /\ b[1] = "0" /\ b[2] = "x" /\ digits(SubSeq(b, 3, Len(b)))
        body == IF s # << >> /\ s[1] = "-" THEN Tail(s) ELSE s
        zeros == CHOOSE z \in 0..Len(body) :
                    /\ \A i \in 1..z : body[i] = "0"
                    /\ z = Len(body) \/ body[z + 1] # "0"
        magnitude == IF zeros = Len(body) THEN << "0" >> ELSE SubSeq(body, zeros + 1, Len(body))
        canonical == IF s[1] = "-" /\ magnitude # << "0" >> THEN << "-" >> \o magnitude
                     ELSE magnitude
    IN /\ decimal(s) => pc # "rejected"
       /\ (decimal(s) /\ pc \in {"coerced", "recoerced"}) => callArgs = << canonical >>
       /\ pc = "recoerced" => resolvedArgs = callArgs
       /\ pc \in {"coerced", "recoerced"} => decimal(t) \/ hex(t)
       /\ pc = "rejected" => notifications # << >>

\* C15: for a config that carries raw data and a contract address, every
\* submission sends the raw data as it is: the primitive is sendTransaction
\* and no function of the abi is encoded, also when the config has an abi.
C15_RawDataBypassesEncoding ==
    (config.data /\ config.address # AddrEmpty)
       => \A i \in 1..Len(calls) :
             calls[i].prim \in {"sendTransaction", "writeContract", "deployContract"}
                => /\ calls[i].prim = "sendTransaction"
                   /\ calls[i].functionName = NoName
                   /\ calls[i].args = << >>

C17_ReadsInOrder ==
    LET D == {j \in 1..Len(callArgs) : callArgs[j] \in {<< "$read" >>, << "$read2" >>}}
        nth(k) == CHOOSE j \in D : Cardinality({i \in D : i < j}) = k - 1
        emb == SelectSeq(calls, LAMBDA c : c.embedded)
        failed == \E i \in 1..Len(notifications) :
                     notifications[i].cause = "EmbeddedReadFailed"
    IN impl \in {"hook", "hook0"}
          => /\ Len(emb) <= Cardinality(D)
             /\ \A k \in 1..Len(emb) :
                   /\ emb[k].functionName = callArgs[nth(k)][1]
                   /\ Len(resolvedArgs) >= nth(k) - 1
                   /\ k < Len(emb) => Len(resolvedArgs) >= nth(k)
             /\ pc = "awaitEmbedded" => Len(resolvedArgs) = nth(Len(emb)) - 1
             /\ failed => /\ pc = "done"
                          /\ calls[Len(calls)].embedded
                          /\ Len(resolvedArgs) = nth(Len(emb)) - 1

\* C17 witness: of two embedded reads the first was answered and the second
\* failed, in the earlier hook after a switch before each of them
C17_Witness ==
    /\ impl = "hook0" /\ pc = "done"
    /\ Len(calls) = 2 /\ calls[1].embedded /\ calls[2].embedded
    /\ Len(requests) = 3
    /\ notifications[Len(notifications)].cause = "EmbeddedReadFailed"

\* C18: a click on a write button whose function (the one named, or the
\* abi's only function when none is named) has a tuple parameter never starts
\* the transaction itself: whatever the saved value of the tuple, the click
\* opens the input prompt (or ends, when no wallet is connected).
C18_TupleAlwaysPrompts ==
    [][ LET name == IF config.functionName # NoName THEN config.functionName
                    ELSE IF Len(FunctionsInAbi(config.abi)) = 1
                    THEN FunctionsInAbi(config.abi)[1].name
                    ELSE NoName
            f == FindFunction(AbiItems(config.abi), name)
        IN (/\ pc = "idle" /\ ~config.readOnly /\ config.address = AddrValid
            /\ f # NoItem
            /\ \E index \in 1..Len(f.inputs) : f.inputs[index].type = "tuple")
              => pc' \in {"modalOpening", "done"} ]_vars

\* C19: of two invocations of the same write button, each one that has
\* finished with a wallet connected and without any failure reported for it
\* has made its own submission, exactly one, carrying the args it resolved
\* itself, and has reported its own sent transaction; what the other
\* invocation is doing makes no difference.
C19_IndependentInvocations ==
    \A i \in {1, 2} :
       LET mine == SelectSeq(calls, LAMBDA c : c.inv = i /\ ~c.embedded)
           sent == SelectSeq(notifications, LAMBDA n : n.inv = i /\ n.kind = "TxSent")
           failures == SelectSeq(notifications, LAMBDA n : n.inv = i /\ n.type = "error")
       IN (pc[i] = "done" /\ isConnected /\ walletClient /\ failures = << >>)
             => /\ Len(mine) = 1
                /\ mine[1].prim \in {"writeContract", "sendTransaction"}
                /\ mine[1].prim = "writeContract" => mine[1].args = resolvedArgs[i]
                /\ Len(sent) = 1

\* C19 witness: both invocations were awaiting the wallet at the same time,
\* each with its own submission
C19_Witness ==
    /\ pc = << "awaitSubmit", "awaitSubmit" >>
    /\ Len(SelectSeq(calls, LAMBDA c : ~c.embedded)) = 2
    /\ \E a, b \in 1..Len(calls) : calls[a].inv = 1 /\ calls[b].inv = 2

\* C20: an executeRead or handleTransaction of the hook (either version) and
\* an executeRead of the view that has finished has reported its outcome: in
\* the hook the last notification is the operation's own, and it is an error
\* unless the read was answered or the transaction was sent (the missing
\* wallet is reported as a request to connect); a failed coordination always
\* ends with an error.  In the view the read ends with data or an error set,
\* or with the coordinator's error notification.  No operation ends silently.
C20_FailuresReported ==
    LET n == Len(notifications)
        success == \E i \in 1..n : notifications[i].kind \in {"ReadOk", "TxSent"}
    IN (/\ pc = "done" /\ op # "none"
        /\ impl \in {"hook", "hook0"} \/ (impl = "view" /\ op = "read"))
          => IF impl = "view"
             THEN \/ readState \in {"data", "error"}
                  \/ coord = "fail" /\ n > 0 /\ notifications[n].type = "error"
             ELSE /\ n > 0
                  /\ notifications[n].kind \in
                        {"ReadOk", "TxSent", "TxConfirmed", "TxReverted", "ReadFailed",
                         "TxFailed", "ConnectWallet", "ClientNotReady"}
                  /\ ~success => \/ notifications[n].type = "error"
                                 \/ notifications[n].kind = "ConnectWallet"
                  /\ coord = "fail" => notifications[n].type = "error"

\* C20 witness: an embedded read of a hook transaction failed and the catch
\* block of handleTransaction reported it
C20_Witness ==
    /\ impl = "hook" /\ pc = "done" /\ op = "tx"
    /\ calls # << >> /\ calls[Len(calls)].embedded
    /\ notifications[Len(notifications)].kind = "TxFailed"
    /\ notifications[Len(notifications)].cause = "EmbeddedReadFailed"

\* C21: one invocation calls a submission primitive (deployContract,
\* writeContract, sendTransaction) at most once, and the submission is the
\* last primitive it calls: after a failed or rejected submission nothing is
\* submitted again.
C21_AtMostOneSubmission ==
    LET subs == {i \in 1..Len(calls) :
                    calls[i].prim \in {"deployContract", "writeContract", "sendTransaction"}}
    IN /\ Cardinality(subs) <= 1
       /\ \A i \in subs : i = Len(calls)

\* C21 witness: the wallet refused the hook's submission and the invocation
\* ended with that one submission
C21_Witness ==
    /\ impl = "hook" /\ pc = "done" /\ Len(calls) >= 1
    /\ calls[Len(calls)].prim = "writeContract"
    /\ notifications[Len(notifications)].kind = "TxFailed"
    /\ notifications[Len(notifications)].cause = "rejected"

\* C22: a value coerced against uint256[] that is an array, or a text
\* holding a JSON array literal, of elements that are integers yields the
\* array of their decimal strings; a value that is neither is refused with
\* an invalid-argument error naming the parameter.
C22_ArrayCoercion ==
    (pc \in {"submitted", "rejected"} /\ resolvedArgs # << >>) =>
        LET value == resolvedArgs[1]
            parsed == JsonParse(value)
            array == IF IsArrayValue(value) THEN value
                     ELSE IF IsString(value) /\ parsed.ok /\ IsArrayValue(parsed.value)
                     THEN parsed.value
                     ELSE << >>
            items == Tail(array)
        IN IF array = << >>
           THEN /\ pc = "rejected"
                /\ notifications[Len(notifications)].param = "ids"
                /\ (Trim(value) # << >> =>
                        notifications[Len(notifications)].cause = "InvalidArgument")
           ELSE (\A k \in 1..Len(items) :
                    \/ IsNumber(items[k])
                    \/ IsString(items[k]) /\ Trim(items[k]) # << >> /\ ParseBigInt(items[k]).ok)
                => /\ pc = "submitted"
                   /\ callArgs[1] = << "array" >> \o
                         [k \in 1..Len(items) |->
                             IF IsNumber(items[k]) THEN ToDecimalString(items[k][2])
                             ELSE ToDecimalString(ParseBigInt(items[k]).n)]

\* C23: in executeRead and handleTransaction (hook) and executeTransaction
\* (view) a contract call or submission is issued only once network
\* coordination has completed successfully: never while it is pending or
\* after it failed.
C23_CoordinationBeforeCalls ==
    [][(impl \in {"hook", "view"} /\ calls' # calls) => (coord = "ok" /\ coord' = "ok")]_vars

\* C23 witness: the wallet switched chains on request and an embedded read
\* and the submission followed
C23_Witness ==
    /\ impl = "hook" /\ coord = "ok" /\ requests = << "switch" >>
    /\ Len(calls) >= 2 /\ calls[1].prim = "readContract"
    /\ calls[Len(calls)].prim = "writeContract"

\* C24: network coordination (hook and view) ends after finitely many wallet
\* responses: every step taken while it runs moves it closer to its end
\* (start, first switch, registration, retried switch, terminal), it asks for
\* at most two switches and one registration, and a refused retried switch
\* ends it as a failure that is reported and followed by no call.
C24_CoordinationTerminates ==
    [][(impl \in {"hook", "view"} =>
        LET rank(p) == IF p = "coord" THEN 4
                       ELSE IF p = "awaitSwitch" THEN 3
                       ELSE IF p = "awaitAdd" THEN 2
                       ELSE IF p = "awaitSwitchRetry" THEN 1
                       ELSE 0
            count(name) == Cardinality({i \in 1..Len(requests') : requests'[i] = name})
        IN (/\ rank(pc) > 0 => (rank(pc') < rank(pc) /\ (rank(pc') = 0 => coord' \in {"ok", "fail"}))
            /\ count("switch") <= 2
            /\ count("addChain") <= 1
            /\ (pc = "awaitSwitchRetry" /\ responses'[Len(responses')] # 0)
                  => (/\ coord' = "fail" /\ pc' = "done"
                      /\ Len(notifications') > Len(notifications)
                      /\ Len(calls') = 0)))]_vars

\* C24 witness: the hook's switch was refused as unknown, the registration
\* went through and the retried switch was refused
C24_Witness ==
    /\ impl = "hook" /\ coord = "fail" /\ pc = "done"
    /\ requests = << "switch", "addChain", "switch" >>
    /\ Len(responses) = 3 /\ responses[2] = 0 /\ responses[3] # 0

\* The slots of a call in left-to-right, depth-first order, each with its
\* name and whether its value is unusable: empty, or not an integer where
\* one is wanted.  A tuple that is itself empty is one slot; otherwise its
\* components are the slots.  trims tells whether blanks are trimmed first.
SlotInvalid(param, value, trims) ==
    LET v == IF trims THEN TrimmedValue(value) ELSE value
    IN v = Null \/ v = << >> \/ (IsIntegerType(param.type) /\ ~ParseBigInt(v).ok)

SlotsOf(param, value, trims) ==
    IF param.type = "tuple" /\ trims
    THEN IF IsEmptyAfterTrim(value) THEN << [name |-> param.name, bad |-> TRUE] >>
         ELSE [k \in 1..Len(param.components) |->
                  [name |-> param.components[k].name,
                   bad |-> SlotInvalid(param.components[k], ComponentOf(value, k), trims)]]
    ELSE << [name |-> param.name, bad |-> SlotInvalid(param, value, trims)] >>

RECURSIVE FlatSlots(_, _, _, _)
FlatSlots(inputs, values, i, trims) ==
    IF i > Len(inputs) THEN << >>
    ELSE SlotsOf(inputs[i], ValueAt(values, i), trims) \o FlatSlots(inputs, values, i + 1, trims)

C27_SaveNeverSubmits ==
    [][(/\ impl \in {"hook", "view"}
        /\ \/ /\ pc = "modal" /\ Len(notifications') > Len(notifications)
              /\ notifications'[Len(notifications')].kind = "InputsSaved"
           \/ /\ pc = "modalOpening" /\ notifications # << >>
              /\ notifications[Len(notifications)].kind = "InputsSaved")
       => (/\ op' = "none" /\ callArgs' = callArgs /\ calls' = calls
           /\ pc' \in {"modal", "modalOpening", "done"}
           /\ pc = "modal" => savedArgs' = argValues)]_vars

\* C27 witness: the view's modal saved values that fill every input and
\* closed without a submission
C27_Witness ==
    /\ impl = "view" /\ pc = "done" /\ op = "none" /\ calls = << >>
    /\ notifications # << >>
    /\ notifications[Len(notifications)].kind = "InputsSaved"
    /\ Len(savedArgs) = 2 /\ savedArgs[1] = << "1" >> /\ savedArgs[2] = << "1" >>
    /\ config.args # savedArgs

\* C28: when the modal's effects find no input of the saved args in need of
\* entry (the auto-submit precondition), resolving those args never reports
\* an argument as empty.
C28_EmptinessAgrees ==
    [][(/\ pc = "modalOpening" /\ impl # "legacy"
        /\ selectedFunction(ModalConfig) # NoItem
        /\ checkVisibleInputs(selectedFunction(ModalConfig).inputs, ModalConfig.args) = {})
       => ~(/\ notifications' # notifications
            /\ notifications'[Len(notifications')].kind = "ArgError"
            /\ notifications'[Len(notifications')].cause = "MissingArgument")]_vars

\* C29: every settings change made through handleSettingsChange leaves each
\* profile with a visibility map over exactly the keys of the new settings,
\* shows a button the change added in the active profile only, and keeps
\* the visibility every other button had in every profile.
C29_VisibilityFollowsSettings ==
    [][app'.last \in {"change", "recover"} =>
        (\A name \in PROFILE_NAMES :
            /\ name \in DOMAIN app'.profileVisibility
            /\ DOMAIN app'.profileVisibility[name] = app'.settings
            /\ \A key \in app'.settings :
                  app'.profileVisibility[name][key] =
                     IF key \in app.settings
                     THEN ~(/\ name \in DOMAIN app.profileVisibility
                            /\ key \in DOMAIN app.profileVisibility[name]
                            /\ app.profileVisibility[name][key] = FALSE)
                     ELSE name = app'.activeProfile)]_vars

\* C30: a notification on display is taken down only by the user or once
\* its own duration has elapsed since it was shown.
C30_NotificationKeepsItsDuration ==
    [][(app.notification # 0 /\ app'.notification = 0 /\ app'.last # "dismiss")
       => app.shown[app.notification].at + app.shown[app.notification].duration <= app.now]_vars

====
